---- MODULE Spec2Model ----
(***************************************************************************)
(* State-machine model of the eGrovity front end: route guarding and the   *)
(* role-based sidebar (App.js, routes, AppSidebar), the master-data        *)
(* provider (MasterDataContext.js), the weekly evaluation form             *)
(* (PerformanceMetrics) and the generic master CRUD page (MasterModule).   *)
(* Every component has its own variables, initial condition and actions;   *)
(* one specification per component keeps the other components' variables   *)
(* at their initial values.                                                *)
(***************************************************************************)
EXTENDS Integers, Sequences, FiniteSets, TLC

\* ------------------------------------------------------------------------
\* Bounds of the model
\* ------------------------------------------------------------------------
\* The clock runs from 0 to MaxClock seconds.
MaxClock == 2
\* JWT exp claims range over 1..MaxExp seconds.
MaxExp == 2
\* At most this many storage events from other tabs are undelivered.
MaxStorageEvents == 1
\* The backend holds at most MaxItems active departments and measurements.
MaxItems == 2
\* At most this many master-data loads are in flight at once.
MaxMasterLoads == 3

\* ------------------------------------------------------------------------
\* Strings are sequences of one-character strings
\* ------------------------------------------------------------------------
UpperAlpha ==
  <<"A","B","C","D","E","F","G","H","I","J","K","L","M",
    "N","O","P","Q","R","S","T","U","V","W","X","Y","Z">>
LowerAlpha ==
  <<"a","b","c","d","e","f","g","h","i","j","k","l","m",
    "n","o","p","q","r","s","t","u","v","w","x","y","z">>

LowerChar(c) ==
  IF \E i \in DOMAIN UpperAlpha : UpperAlpha[i] = c
  THEN LowerAlpha[CHOOSE i \in DOMAIN UpperAlpha : UpperAlpha[i] = c]
  ELSE c

\* String.prototype.toLowerCase
toLowerCase(s) == [i \in 1..Len(s) |-> LowerChar(s[i])]

SetMin(S) == CHOOSE x \in S : \A y \in S : x <= y
SetMax(S) == CHOOSE x \in S : \A y \in S : x >= y

\* String.prototype.trim (the only white space of the model is the blank)
trim(s) ==
  LET keep == {i \in 1..Len(s) : s[i] # " "}
  IN IF keep = {} THEN <<>> ELSE SubSeq(s, SetMin(keep), SetMax(keep))

\* null / undefined of a string-valued expression
Null == <<"<null>">>
EmptyStr == <<>>
\* JavaScript truthiness of a string or null
Truthy(s) == s # Null /\ s # EmptyStr

S_admin == <<"a","d","m","i","n">>
S_manager == <<"m","a","n","a","g","e","r">>
S_employee == <<"e","m","p","l","o","y","e","e">>
S_guest == <<"g","u","e","s","t">>
S_AdminSp == <<"A","d","m","i","n"," ">>
S_MANAGER == <<"M","A","N","A","G","E","R">>
S_blank == <<" ">>
S_Admin == <<"A","d","m","i","n">>

\* Values the role item of localStorage takes in the model.
RoleStrings ==
  {EmptyStr, S_blank, S_admin, S_AdminSp, S_MANAGER, S_employee, S_guest}

\* ------------------------------------------------------------------------
\* Strings and numbers of the evaluation form (PerformanceMetrics)
\* ------------------------------------------------------------------------
UpperChar(c) ==
  IF \E i \in 1..26 : LowerAlpha[i] = c
  THEN UpperAlpha[CHOOSE i \in 1..26 : LowerAlpha[i] = c]
  ELSE c

toUpperCase(s) == [i \in 1..Len(s) |-> UpperChar(s[i])]

\* s.startsWith(p)
StartsWith(s, p) == Len(p) <= Len(s) /\ SubSeq(s, 1, Len(p)) = p

\* the positions at which p occurs in s
Occurrences(s, p) ==
  {i \in 1..(Len(s) - Len(p) + 1) : SubSeq(s, i, i + Len(p) - 1) = p}

\* s.includes(p)
Includes(s, p) == Occurrences(s, p) # {}

\* s.split(sep) for a separator that is not empty
RECURSIVE Split(_, _)
Split(s, sep) ==
  IF Occurrences(s, sep) = {} THEN <<s>>
  ELSE LET i == SetMin(Occurrences(s, sep))
       IN <<SubSeq(s, 1, i - 1)>> \o Split(SubSeq(s, i + Len(sep), Len(s)), sep)

Digits == <<"0","1","2","3","4","5","6","7","8","9">>
IsDigit(c) == \E d \in 1..10 : Digits[d] = c
DigitVal(c) == (CHOOSE d \in 1..10 : Digits[d] = c) - 1
IsDigits(s) == \A i \in 1..Len(s) : IsDigit(s[i])

RECURSIVE NatOf(_)
NatOf(s) ==
  IF s = <<>> THEN 0
  ELSE 10 * NatOf(SubSeq(s, 1, Len(s) - 1)) + DigitVal(s[Len(s)])

\* String(n) for a natural number
RECURSIVE NatToStr(_)
NatToStr(n) ==
  IF n < 10 THEN <<Digits[n + 1]>>
  ELSE NatToStr(n \div 10) \o <<Digits[(n % 10) + 1]>>

\* s.padStart(2, "0")
padStart2(s) == IF Len(s) < 2 THEN [i \in 1..(2 - Len(s)) |-> "0"] \o s ELSE s

\* A JavaScript number as far as the form looks at it: null, NaN, or a sign,
\* an integer part and whether a fractional part other than zero follows.
NullNum == [kind |-> "null", neg |-> FALSE, int |-> 0, frac |-> FALSE]
NaN == [kind |-> "nan", neg |-> FALSE, int |-> 0, frac |-> FALSE]
Num(neg, int, frac) == [kind |-> "num", neg |-> neg, int |-> int, frac |-> frac]

\* Number(s) for the decimal literals: optional sign, digits, optional
\* point and digits; the empty or blank string is 0. Any other text is NaN
\* (exponents, hexadecimal and Infinity are not among the inputs drawn).
UnsignedNumber(neg, t) ==
  LET dots == {i \in 1..Len(t) : t[i] = "."}
      cut  == IF dots = {} THEN Len(t) + 1 ELSE SetMin(dots)
      ip   == SubSeq(t, 1, cut - 1)
      fp   == SubSeq(t, cut + 1, Len(t))
  IN IF IsDigits(ip) /\ IsDigits(fp) /\ Len(ip) + Len(fp) > 0
     THEN Num(neg, NatOf(ip), \E i \in 1..Len(fp) : fp[i] # "0")
     ELSE NaN

NumberOf(s) ==
  LET t == trim(s)
  IN IF t = <<>> THEN Num(FALSE, 0, FALSE)
     ELSE IF t[1] = "-" THEN UnsignedNumber(TRUE, Tail(t))
     ELSE IF t[1] = "+" THEN UnsignedNumber(FALSE, Tail(t))
     ELSE UnsignedNumber(FALSE, t)

IsNaN(n) == n.kind = "nan"
\* !n
NumFalsy(n) == n.kind # "num" \/ (n.int = 0 /\ ~n.frac)
\* n < k and n > k for a natural number k
NumLess(n, k) ==
  n.kind = "num" /\ (IF n.neg THEN n.int > 0 \/ n.frac \/ k > 0 ELSE n.int < k)
NumGreater(n, k) ==
  n.kind = "num" /\ ~n.neg /\ (n.int > k \/ (n.int = k /\ n.frac))

\* ------------------------------------------------------------------------
\* Variables
\* ------------------------------------------------------------------------
VARIABLES
  \* browser: App.js, routes, AppSidebar, AppHeaderDropdown, lifecycle page
  localStorage,      \* the items the front end reads and writes
  sessionStorage,    \* TRUE iff sessionStorage holds app_initialized
  clock,             \* seconds; Date.now() is clock * 1000
  appPhase,          \* "closed" | "loading" (lazy chunk pending) | "ready"
  location,          \* the hash route
  layoutMounted,     \* DefaultLayout (with AppSidebar) is mounted
  page,              \* the page shown inside or outside the layout
  sidebarRole,       \* AppSidebar's role state
  storageEvents,     \* storage events from other tabs not yet delivered
  pendingNav,        \* a hash change assigned by a handler, not yet routed
  historyMounted,    \* EmployeeLifecycleHistory is mounted
  authEvent          \* what the last step did (guard outcome, redirects, requests)

authVars ==
  <<localStorage, sessionStorage, clock, appPhase, location, layoutMounted,
    page, sidebarRole, storageEvents, pendingNav, historyMounted, authEvent>>

VARIABLES
  \* MasterDataProvider
  masters,           \* the state masters: type -> ids of the items loaded
  loadedOnceRef,     \* loadedOnceRef.current
  mastersLoading,    \* the state loading
  mastersInFlight,   \* loadMasters calls waiting for Promise.all
  mastersEvent       \* what the last step did to the provider

mastersVars ==
  <<masters, loadedOnceRef, mastersLoading, mastersInFlight, mastersEvent>>

VARIABLES
  \* PerformanceMetrics (the weekly evaluation form)
  pmMounted,         \* the page is mounted
  pmNav,             \* location.state: mode, employee, selectedWeek
  selectedWeek,      \* the state selectedWeek
  employeeId,        \* the state employeeId
  employeeName,      \* employeeData.name
  evaluationId,      \* the state evaluationId, 0 for null
  scores,            \* the state scores
  validationModal,   \* the state validationModal: show, message
  loadingSubmit,     \* loading.submit
  eligibleEmployees, \* the state eligibleEmployees
  filteredEmployees, \* the state filteredEmployees: employees or one message
  pmRequests,        \* requests and timers of the page not yet answered
  pmEvent            \* what the last step did on the page

\* the form apart from the scores, which the measurement masters resize
pmFormVars ==
  <<pmMounted, pmNav, selectedWeek, employeeId, employeeName, evaluationId,
    validationModal, loadingSubmit, eligibleEmployees, filteredEmployees,
    pmRequests, pmEvent>>

pmVars == <<pmFormVars, scores>>

VARIABLES
  \* GenericCRUDPage, its table and its pagination
  crudPage,          \* masterType of the mounted page, "none" when unmounted
  backendRows,       \* the rows of that type the backend holds, oldest first
  statusFilter,      \* the state statusFilter
  sortOrder,         \* the state sortOrder
  pageSize,          \* the state pageSize
  currentPage,       \* the state currentPage
  totalPages,        \* the state totalPages
  totalRecords,      \* the state totalRecords
  items,             \* the state items
  crudLoading,       \* the state loading
  alert,             \* the state alert: type, message
  listRequests,      \* MasterAPI.list calls not yet answered
  crudEvent          \* what the last step did on the page

\* the list apart from the record of the last step
listVars ==
  <<crudPage, backendRows, statusFilter, sortOrder, pageSize, currentPage,
    totalPages, totalRecords, items, crudLoading, alert, listRequests>>

crudListVars == <<listVars, crudEvent>>

VARIABLES
  \* ProjectsPage and the AddNewModal of the page
  showForm,          \* the state showForm
  editItem,          \* the id of the state editItem, 0 for null
  form,              \* the state form of AddNewModal
  selectedDepartment,\* ProjectsPage: the state selectedDepartment, 0 for null
  managers,          \* ProjectsPage: the state managers (ids)
  managerRequests,   \* fetchManagers calls not yet answered
  saveRequests       \* MasterAPI.create and MasterAPI.update calls not yet answered

crudFormVars ==
  <<showForm, editItem, form, selectedDepartment, managers, managerRequests,
    saveRequests>>

crudVars == <<crudListVars, crudFormVars>>

VARIABLES
  \* the week strings of the evaluation form, taken on their own
  weekArgs,          \* the year and week given to formatWeekValue, or NoArgs
  weekText,          \* the week string at hand: typed, formatted, or null
  weekParsed         \* what parseWeek returned for weekText, or Unparsed

weekVars == <<weekArgs, weekText, weekParsed>>

VARIABLES
  \* GenericCRUDPage: the status action of a row and its two modals
  deleteTarget,          \* the state deleteTarget (id and status), or NoTarget
  deleteLoading,         \* the state deleteLoading
  deptDeactivateTarget,  \* the state deptDeactivateTarget, or NoTarget
  deptDeactivateLoading, \* the state deptDeactivateLoading
  reason,                \* DeactivateDepartmentModal: the state reason
  preview,               \* DeactivateDepartmentModal: the state preview
  previewLoading,        \* DeactivateDepartmentModal: the state previewLoading
  statusRequests,        \* MasterAPI.update calls of confirmDelete not yet answered
  deactivateRequests,    \* deactivateDepartment calls not yet answered
  renderError            \* a render has thrown and the page is gone

deleteVars ==
  <<deleteTarget, deleteLoading, deptDeactivateTarget, deptDeactivateLoading,
    reason, preview, previewLoading, statusRequests, deactivateRequests,
    renderError>>

VARIABLES
  \* Profile
  editingSections,   \* the state editingSections: section -> being edited
  formData,          \* the state formData: section -> field -> value
  originalData,      \* the state originalData, the backup Cancel restores
  saving,            \* the state saving
  profileSaves,      \* the sections whose PATCH is not yet answered
  profilePicture,    \* the state profilePicture: the file chosen, or NoFile
  pictureCheck,      \* what validateProfilePicture returned for the last file
  enteredData,       \* section in edit mode -> its form data when it was entered
  profileEvent       \* the last step: op, section toggled or cancelled, file checked

profileVars ==
  <<editingSections, formData, originalData, saving, profileSaves,
    profilePicture, pictureCheck, enteredData, profileEvent>>

\* the components that stand apart from the pages above
restVars == <<weekVars, deleteVars, profileVars>>
\* what the status action of a master page leaves alone, the page apart
nonDeleteVars == <<authVars, pmVars, weekVars, profileVars>>
\* what the actions of the profile leave alone
nonProfileVars == <<authVars, mastersVars, pmVars, crudVars, weekVars, deleteVars>>

vars == <<authVars, mastersVars, pmVars, crudVars, restVars>>

\* what the browser actions leave alone
nonAuthVars == <<mastersVars, pmVars, crudVars, restVars>>
\* what the provider's own actions leave alone, the scores apart
nonMastersVars == <<authVars, pmFormVars, crudVars, restVars>>
\* what the actions of the evaluation form leave alone
nonPMVars == <<authVars, mastersVars, crudVars, restVars>>
\* what the actions of a master page leave alone, the provider apart
nonCrudVars == <<authVars, pmVars, restVars>>

\* ------------------------------------------------------------------------
\* localStorage
\* ------------------------------------------------------------------------
\* An access token is modelled by what decoding it yields:
\*   null     no item                 empty    the item is ""
\*   nodot    no "." in the token     notb64   atob throws on segment 1
\*   notjson  JSON.parse throws       jsonnull the payload is JSON null
\*   noexp    an object without exp   exp      an object with a numeric exp
TokenKinds ==
  {"null", "empty", "nodot", "notb64", "notjson", "jsonnull", "noexp", "exp"}
Token(k, e) == [kind |-> k, exp |-> e]
NoToken == Token("null", 0)
Tokens ==
  {Token(k, 0) : k \in TokenKinds \ {"exp"}} \cup {Token("exp", e) : e \in 1..MaxExp}

\* The item user is carried as the role field of the object it parses to:
\* Null when the item is absent, is not JSON or has no role.
StorageKeys == {"access_token", "role", "user"}
\* The keys App removes on a new browser session that the model carries.
AuthKeys == {"access_token", "role"}

NullOf(k) == IF k = "access_token" THEN NoToken ELSE Null
ValuesOf(k) ==
  IF k = "access_token" THEN Tokens
  ELSE IF k = "role" THEN RoleStrings \cup {Null}
  ELSE {Null, S_Admin}

\* localStorage.clear()
ClearedStorage == [k \in StorageKeys |-> NullOf(k)]
\* localStorage.removeItem for each key of ks
RemoveItems(ls, ks) == [k \in StorageKeys |-> IF k \in ks THEN NullOf(k) ELSE ls[k]]

\* ------------------------------------------------------------------------
\* App.js: isTokenValid and ProtectedRoute
\* ------------------------------------------------------------------------
MsPerSecond == 1000
DateNow(t) == t * MsPerSecond

\* !token of JavaScript: the item is missing or the empty string
TokenFalsy(tok) == tok.kind \in {"null", "empty"}

\* App.js isTokenValid: every decoding failure is caught and yields false; a
\* payload without exp gives NaN, and Date.now() < NaN is false.
isTokenValid(ls, t) ==
  LET token == ls["access_token"]
  IN IF TokenFalsy(token) THEN FALSE
     ELSE IF token.kind \in {"nodot", "notb64", "notjson", "jsonnull"} THEN FALSE
     ELSE IF token.kind = "noexp" THEN FALSE
     ELSE DateNow(t) < token.exp * MsPerSecond

AllowedRoles == {S_admin, S_manager, S_employee}

\* localStorage.getItem("role")?.toLowerCase()
StoredRoleLower(ls) == IF ls["role"] = Null THEN Null ELSE toLowerCase(ls["role"])
\* localStorage.getItem("role")?.toLowerCase().trim()
StoredRoleLowerTrim(ls) ==
  IF ls["role"] = Null THEN Null ELSE trim(toLowerCase(ls["role"]))

ProtectedRoute_NoTrim(ls, t) ==
  LET role == StoredRoleLower(ls)
  IN IF ~isTokenValid(ls, t) THEN [render |-> "login", ls |-> ls, guard |-> "redirect"]
     ELSE IF ~Truthy(role)
       THEN [render |-> "login", ls |-> ClearedStorage, guard |-> "clear"]
     ELSE IF role \notin AllowedRoles
       THEN [render |-> "login", ls |-> ls, guard |-> "redirect"]
     ELSE [render |-> "children", ls |-> ls, guard |-> "children"]

\* App.js ProtectedRoute with allowedRoles = admin, manager, employee: what it
\* renders and the storage it leaves.
ProtectedRoute(ls, t) ==
  LET role == StoredRoleLowerTrim(ls)
  IN IF ~isTokenValid(ls, t) THEN [render |-> "login", ls |-> ls, guard |-> "redirect"]
     ELSE IF ~Truthy(role)
       THEN [render |-> "login", ls |-> ClearedStorage, guard |-> "clear"]
     ELSE IF role \notin AllowedRoles
       THEN [render |-> "login", ls |-> ls, guard |-> "redirect"]
     ELSE [render |-> "children", ls |-> ls, guard |-> "children"]

\* ------------------------------------------------------------------------
\* Routing: App.js routes, routes.js entries, Dashboard
\* ------------------------------------------------------------------------
HistoryPath == "/employee-lifecycle/history"
Paths ==
  {"/", "/login", "/dashboard", "/admin-dashboard", "/employee-dashboard",
   HistoryPath}

\* App.js root route: where "/" redirects to
RootRedirect(ls, t) ==
  IF isTokenValid(ls, t) /\ Truthy(ls["role"]) THEN "/dashboard" ELSE "/login"

\* Dashboard (the effect on mount): where /dashboard redirects to
DashboardRedirect(ls) ==
  LET role == StoredRoleLower(ls)
  IN IF TokenFalsy(ls["access_token"]) \/ ~Truthy(role) THEN "/login"
     ELSE IF role = S_employee THEN "/employee-dashboard"
     ELSE "/admin-dashboard"

HistoryRouteElement_AnyStaff(ls) ==
  IF StoredRoleLower(ls) \in {S_admin, S_manager} THEN "History" ELSE "/dashboard"

\* routes.js, the element of /employee-lifecycle/history: the page, or the
\* path it redirects to
HistoryRouteElement(ls) ==
  IF StoredRoleLower(ls) = S_admin THEN "History" ELSE "/dashboard"

\* Rendering a path, following <Navigate> and navigate() until a page stays.
\* layout: DefaultLayout is already mounted, so the element of "/*" is kept
\* and ProtectedRoute is not evaluated again. The result carries the storage
\* left behind, the final location, the pages passed through and the outcome
\* of ProtectedRoute ("none" when it was not evaluated).
RECURSIVE Route(_, _, _, _, _, _)
Route(path, ls, t, layout, trail, guard) ==
  LET tr == Append(trail, path)
      stay(pg, lay) ==
        [loc |-> path, ls |-> ls, layout |-> lay, page |-> pg, trail |-> tr,
         guard |-> guard]
  IN IF path = "/login" THEN stay("Login", FALSE)
     ELSE IF path = "/" THEN Route(RootRedirect(ls, t), ls, t, FALSE, tr, guard)
     ELSE IF ~layout
       THEN LET g == ProtectedRoute(ls, t)
            IN IF g.render = "login"
               THEN Route("/login", g.ls, t, FALSE, tr, g.guard)
               ELSE Route(path, g.ls, t, TRUE, trail, g.guard)
     ELSE IF path = "/dashboard"
       THEN Route(DashboardRedirect(ls), ls, t, TRUE, tr, guard)
     ELSE IF path = HistoryPath
       THEN IF HistoryRouteElement(ls) = "History"
            THEN stay("History", TRUE)
            ELSE Route(HistoryRouteElement(ls), ls, t, TRUE, tr, guard)
     ELSE stay(path, TRUE)

\* The first render of App, up to the first lazy component (Login or
\* DefaultLayout), which suspends: the location reached and the storage left.
FirstPass(path, ls, t) ==
  LET p == IF path = "/" THEN RootRedirect(ls, t) ELSE path
  IN IF p = "/login" THEN [loc |-> "/login", ls |-> ls, guard |-> "none"]
     ELSE LET g == ProtectedRoute(ls, t)
          IN [loc |-> IF g.render = "login" THEN "/login" ELSE p, ls |-> g.ls,
              guard |-> g.guard]

\* ------------------------------------------------------------------------
\* AppSidebar
\* ------------------------------------------------------------------------
\* (localStorage.getItem("role") || "").toLowerCase()
SidebarReadRole_Raw(ls) == IF ls["role"] = Null THEN EmptyStr ELSE ls["role"]

SidebarReadRole(ls) ==
  IF ls["role"] = Null THEN EmptyStr ELSE toLowerCase(ls["role"])

\* the useMemo of AppSidebar
MenuFor(role) ==
  IF role = S_admin \/ role = S_manager THEN "adminMenu"
  ELSE IF role = S_employee THEN "employeeMenu"
  ELSE "loginMenu"

navigation == MenuFor(sidebarRole)

\* ------------------------------------------------------------------------
\* Browser actions
\* ------------------------------------------------------------------------
Event(op) ==
  [op |-> op, guard |-> "none", trail |-> <<>>, historyRequest |-> FALSE]

\* The commit of a routing result: mounting and unmounting the layout, the
\* sidebar and the lifecycle page. AppSidebar reads the role when it mounts;
\* EmployeeLifecycleHistory issues its list request when it mounts.
Commit(r, op) ==
  /\ localStorage' = r.ls
  /\ location' = r.loc
  /\ layoutMounted' = r.layout
  /\ page' = r.page
  /\ sidebarRole' =
       IF r.layout /\ ~layoutMounted THEN SidebarReadRole(r.ls)
       ELSE IF r.layout THEN sidebarRole
       ELSE EmptyStr
  /\ historyMounted' = (r.page = "History")
  /\ authEvent' =
       [op |-> op, guard |-> r.guard, trail |-> r.trail,
        historyRequest |-> (r.page = "History" /\ ~historyMounted)]

\* App's mount effect without the test of the session marker
AppMount_AlwaysRemove(path) ==
  /\ appPhase = "closed"
  /\ LET f == FirstPass(path, localStorage, clock)
     IN /\ localStorage' = RemoveItems(f.ls, AuthKeys)
        /\ location' = f.loc
        /\ authEvent' = [Event("mount") EXCEPT !.guard = f.guard]
  /\ sessionStorage' = TRUE
  /\ appPhase' = "loading"
  /\ UNCHANGED <<nonAuthVars, clock, layoutMounted, page, sidebarRole, storageEvents,
                 pendingNav, historyMounted>>

\* App mounts at a path: the first render runs up to the lazy component,
\* then the mount effect removes the auth items on a new browser session.
AppMount(path) ==
  /\ appPhase = "closed"
  /\ LET f == FirstPass(path, localStorage, clock)
     IN /\ localStorage' =
             IF ~sessionStorage THEN RemoveItems(f.ls, AuthKeys) ELSE f.ls
        /\ location' = f.loc
        /\ authEvent' = [Event("mount") EXCEPT !.guard = f.guard]
  /\ sessionStorage' = TRUE
  /\ appPhase' = "loading"
  /\ UNCHANGED <<nonAuthVars, clock, layoutMounted, page, sidebarRole, storageEvents,
                 pendingNav, historyMounted>>

\* The lazy chunk arrives and the route at the current location renders.
ChunkLoaded ==
  /\ appPhase = "loading"
  /\ appPhase' = "ready"
  /\ Commit(Route(location, localStorage, clock, FALSE, <<>>, "none"), "render")
  /\ UNCHANGED <<nonAuthVars, sessionStorage, clock, storageEvents, pendingNav>>

\* The user follows a link or edits the hash.
Navigate(path) ==
  /\ appPhase = "ready"
  /\ pendingNav = "none"
  /\ Commit(Route(path, localStorage, clock, layoutMounted, <<>>, "none"), "navigate")
  /\ UNCHANGED <<nonAuthVars, sessionStorage, clock, appPhase, storageEvents, pendingNav>>

\* AppHeaderDropdown, Logout: localStorage.clear(), then the hash is set;
\* the router handles the hash change afterwards.
Logout ==
  /\ appPhase = "ready"
  /\ layoutMounted
  /\ pendingNav = "none"
  /\ localStorage' = ClearedStorage
  /\ pendingNav' = "/login"
  /\ authEvent' = Event("logout")
  /\ UNCHANGED <<nonAuthVars, sessionStorage, clock, appPhase, location, layoutMounted, page,
                 sidebarRole, storageEvents, historyMounted>>

\* The router handles the hash change a handler assigned.
HashChange ==
  /\ appPhase = "ready"
  /\ pendingNav # "none"
  /\ Commit(Route(pendingNav, localStorage, clock, layoutMounted, <<>>, "none"),
            "hashchange")
  /\ pendingNav' = "none"
  /\ UNCHANGED <<nonAuthVars, sessionStorage, clock, appPhase, storageEvents>>

\* Another tab of the same origin writes an item (login there, or removal);
\* this tab is sent a storage event.
OtherTabSetItem(k, v) ==
  /\ localStorage[k] # v
  /\ storageEvents < MaxStorageEvents
  /\ localStorage' = [localStorage EXCEPT ![k] = v]
  /\ storageEvents' = storageEvents + 1
  /\ authEvent' = Event("otherTab")
  /\ UNCHANGED <<nonAuthVars, sessionStorage, clock, appPhase, location, layoutMounted, page,
                 sidebarRole, pendingNav, historyMounted>>

\* Another tab logs out: localStorage.clear() there.
OtherTabClear ==
  /\ localStorage # ClearedStorage
  /\ storageEvents < MaxStorageEvents
  /\ localStorage' = ClearedStorage
  /\ storageEvents' = storageEvents + 1
  /\ authEvent' = Event("otherTab")
  /\ UNCHANGED <<nonAuthVars, sessionStorage, clock, appPhase, location, layoutMounted, page,
                 sidebarRole, pendingNav, historyMounted>>

UpdateRole_Keep ==
  /\ storageEvents > 0
  /\ storageEvents' = storageEvents - 1
  /\ sidebarRole' = sidebarRole
  /\ authEvent' = Event("storage")
  /\ UNCHANGED <<nonAuthVars, localStorage, sessionStorage, clock, appPhase, location,
                 layoutMounted, page, pendingNav, historyMounted>>

\* A storage event is delivered; AppSidebar's listener (updateRole) runs when
\* the sidebar is mounted.
UpdateRole ==
  /\ storageEvents > 0
  /\ storageEvents' = storageEvents - 1
  /\ sidebarRole' = IF layoutMounted THEN SidebarReadRole(localStorage) ELSE sidebarRole
  /\ authEvent' = Event("storage")
  /\ UNCHANGED <<nonAuthVars, localStorage, sessionStorage, clock, appPhase, location,
                 layoutMounted, page, pendingNav, historyMounted>>

\* The user changes a filter, the page or the order of the lifecycle page:
\* its effect runs loadData again.
HistoryFilterChange ==
  /\ appPhase = "ready"
  /\ historyMounted
  /\ authEvent' = [Event("historyFilter") EXCEPT !.historyRequest = TRUE]
  /\ UNCHANGED <<nonAuthVars, localStorage, sessionStorage, clock, appPhase, location,
                 layoutMounted, page, sidebarRole, storageEvents, pendingNav,
                 historyMounted>>

\* The page is reloaded (the session stays) or the tab is closed and the
\* app opened again (a new browser session).
Unload(newSession) ==
  /\ appPhase # "closed"
  /\ appPhase' = "closed"
  /\ sessionStorage' = IF newSession THEN FALSE ELSE sessionStorage
  /\ location' = "/"
  /\ layoutMounted' = FALSE
  /\ page' = "none"
  /\ sidebarRole' = EmptyStr
  /\ pendingNav' = "none"
  /\ historyMounted' = FALSE
  /\ authEvent' = Event("unload")
  /\ UNCHANGED <<nonAuthVars, localStorage, clock, storageEvents>>

Tick ==
  /\ clock < MaxClock
  /\ clock' = clock + 1
  /\ authEvent' = Event("tick")
  /\ UNCHANGED <<nonAuthVars, localStorage, sessionStorage, appPhase, location, layoutMounted,
                 page, sidebarRole, storageEvents, pendingNav, historyMounted>>

InitAuth ==
  /\ localStorage = ClearedStorage
  /\ sessionStorage = FALSE
  /\ clock = 0
  /\ appPhase = "closed"
  /\ location = "/"
  /\ layoutMounted = FALSE
  /\ page = "none"
  /\ sidebarRole = EmptyStr
  /\ storageEvents = 0
  /\ pendingNav = "none"
  /\ historyMounted = FALSE
  /\ authEvent = Event("init")

NextAuth ==
  \/ \E p \in Paths : AppMount(p)
  \/ ChunkLoaded
  \/ \E p \in Paths : Navigate(p)
  \/ Logout
  \/ HashChange
  \/ \E k \in StorageKeys : \E v \in ValuesOf(k) : OtherTabSetItem(k, v)
  \/ OtherTabClear
  \/ UpdateRole
  \/ HistoryFilterChange
  \/ \E b \in BOOLEAN : Unload(b)
  \/ Tick

\* ------------------------------------------------------------------------
\* PerformanceMetrics: values and pure functions (part_000)
\* ------------------------------------------------------------------------
S_dashW == <<"-","W">>
S_W01 == <<"2","0","2","5","-","W","0","1">>
S_W02 == <<"2","0","2","5","-","W","0","2">>
S_EMP == <<"E","M","P">>
S_EMP1 == <<"E","M","P","1">>
S_emp1 == <<"e","m","p","1">>
S_Al == <<"A","l">>

\* the employees the backend knows, and their names
Directory == {S_EMP1}
FullName(emp) == S_Al

\* what the user types into the employee box, and the weeks the week input
\* yields (a week input yields "" or yyyy-Www)
TypedEmployeeInputs == {EmptyStr, S_emp1}
WeekInputs == {EmptyStr, S_W01, S_W02}

\* location.state when the page is opened. mode "none" is a missing state.
NoEmployee == Null
AddEntries ==
  {[mode |-> "none", employee |-> NoEmployee, week |-> Null],
   [mode |-> "add",  employee |-> NoEmployee, week |-> Null],
   [mode |-> "add",  employee |-> NoEmployee, week |-> S_W02]}
EditEntries ==
  {[mode |-> "edit", employee |-> S_EMP1, week |-> S_W02],
   [mode |-> "view", employee |-> S_EMP1, week |-> S_W02]}

\* res.data of /performance/latest-week/; year 0 and week 0 stand for a body
\* without them
LatestWeekResponses ==
  {[year |-> 2025, week |-> 1], [year |-> 0, week |-> 0]}

formatWeekValue(year, week) ==
  NatToStr(year) \o S_dashW \o padStart2(NatToStr(week))

\* parseWeek splitting at "-" alone
parseWeek_SplitDash(weekValue) ==
  IF ~Truthy(weekValue) \/ ~Includes(weekValue, S_dashW)
  THEN [year |-> NullNum, week |-> NullNum]
  ELSE LET parts == Split(weekValue, <<"-">>)
       IN [year |-> NumberOf(parts[1]), week |-> NumberOf(parts[2])]

parseWeek(weekValue) ==
  IF ~Truthy(weekValue) \/ ~Includes(weekValue, S_dashW)
  THEN [year |-> NullNum, week |-> NullNum]
  ELSE LET parts == Split(weekValue, S_dashW)
       IN [year |-> NumberOf(parts[1]), week |-> NumberOf(parts[2])]

\* year && week of a parsed week
WeekParses(weekValue) ==
  LET p == parseWeek(weekValue) IN ~NumFalsy(p.year) /\ ~NumFalsy(p.week)

getUserRole(ls) ==
  LET role == IF Truthy(ls["user"]) THEN ls["user"]
              ELSE IF Truthy(ls["role"]) THEN ls["role"]
              ELSE EmptyStr
  IN toLowerCase(role)

\* ["admin", "manager"].includes(role)
EvaluatorRoles == {S_admin, S_manager}

\* An array of scores: strings, undefined, and holes (indexes never written).
Undefined == <<"<undefined>">>
Hole == <<"<hole>">>

\* Array(n).fill("")
Fill(n) == [i \in 1..n |-> EmptyStr]

\* [...scores]: the iterator yields undefined for a hole
Spread(arr) == [i \in 1..Len(arr) |-> IF arr[i] = Hole THEN Undefined ELSE arr[i]]

\* arr[index] = value, index counted from 1; writing past the end leaves holes
SetIndex(arr, index, value) ==
  [i \in 1..(IF index > Len(arr) THEN index ELSE Len(arr)) |->
     IF i = index THEN value ELSE IF i <= Len(arr) THEN arr[i] ELSE Hole]

\* Number(s) of an array element
NumberOfScore(s) == IF s \in {Undefined, Hole} THEN NaN ELSE NumberOf(s)

MaxScore == 100

\* value.replace(/^0+/, "") || "0"
RECURSIVE StripZeros(_)
StripZeros(value) ==
  IF value # <<>> /\ value[1] = "0" THEN StripZeros(Tail(value)) ELSE value

StripLeadingZeros(value) ==
  IF StripZeros(value) = <<>> THEN <<"0">> ELSE StripZeros(value)

MsgValidNumber == "Please enter a valid number between 0 and 100."
MsgExceeds == "Score cannot exceed 100."
NoModal == [show |-> FALSE, message |-> ""]
Modal(msg) == [show |-> TRUE, message |-> msg]

\* handleScoreChange(index, value): the scores and the modal it leaves
handleScoreChange_NoUpper(sc, modal, index, value) ==
  LET updatedScores == Spread(sc)
      v   == IF Len(value) > 1 /\ value[1] = "0" THEN StripLeadingZeros(value) ELSE value
      num == NumberOf(v)
  IN IF value = EmptyStr \/ value = <<"0">>
     THEN [scores |-> SetIndex(updatedScores, index, value), modal |-> modal]
     ELSE IF IsNaN(num) \/ NumLess(num, 0)
     THEN [scores |-> sc, modal |-> Modal(MsgValidNumber)]
     ELSE [scores |-> SetIndex(updatedScores, index, v), modal |-> modal]

handleScoreChange(sc, modal, index, value) ==
  LET updatedScores == Spread(sc)
      v   == IF Len(value) > 1 /\ value[1] = "0" THEN StripLeadingZeros(value) ELSE value
      num == NumberOf(v)
  IN IF value = EmptyStr \/ value = <<"0">>
     THEN [scores |-> SetIndex(updatedScores, index, value), modal |-> modal]
     ELSE IF IsNaN(num) \/ NumLess(num, 0)
     THEN [scores |-> sc, modal |-> Modal(MsgValidNumber)]
     ELSE IF NumGreater(num, MaxScore)
     THEN [scores |-> sc, modal |-> Modal(MsgExceeds)]
     ELSE [scores |-> SetIndex(updatedScores, index, v), modal |-> modal]

\* the sync effect on measurements.length
SyncScores(sc, n) == IF n = 0 \/ Len(sc) = n THEN sc ELSE Fill(n)

\* ------------------------------------------------------------------------
\* MasterDataProvider (MasterDataContext.js)
\* ------------------------------------------------------------------------
MasterTypes == {"ROLE", "DEPARTMENT", "PROJECT", "MEASUREMENT"}

\* useState: every type starts with the empty list
EmptyMasters == [t \in MasterTypes |-> {}]

\* What the four dropdown requests can answer: the active departments and
\* measurements are 1..d and 1..m, roles and projects one item each.
MastersResponses ==
  {[t \in MasterTypes |->
      IF t = "DEPARTMENT" THEN 1..d ELSE IF t = "MEASUREMENT" THEN 1..m ELSE {1}]
    : d \in 0..MaxItems, m \in 0..MaxItems}

\* the answers with one department, for the pages that read the measurements
MeasurementResponses == {r \in MastersResponses : r["DEPARTMENT"] = {1}}

MastersEvent(op, force, requests) ==
  [op |-> op, force |-> force, requests |-> requests]

\* the early return of loadMasters
LoadSkipped_NoRef(force) == FALSE

LoadSkipped(force) == loadedOnceRef /\ ~force

\* The requests one call of loadMasters issues: one per type.
LoadRequests_NoMeasurement(force) ==
  IF LoadSkipped(force) THEN {} ELSE MasterTypes \ {"MEASUREMENT"}

LoadRequests(force) == IF LoadSkipped(force) THEN {} ELSE MasterTypes

\* loadMasters(force) up to its await, as the part of a step that calls it
LoadMastersCall(force) ==
  /\ LoadSkipped(force) \/ mastersInFlight < MaxMasterLoads
  /\ mastersLoading' = IF LoadSkipped(force) THEN mastersLoading ELSE TRUE
  /\ mastersInFlight' =
       IF LoadSkipped(force) THEN mastersInFlight ELSE mastersInFlight + 1
  /\ mastersEvent' = MastersEvent("loadMasters", force, LoadRequests(force))
  /\ UNCHANGED <<masters, loadedOnceRef>>

\* A consumer of the context calls reloadMasters(force); the provider's own
\* effect calls loadMasters() when it mounts.
ReloadMasters(force) ==
  /\ LoadMastersCall(force)
  /\ UNCHANGED <<nonMastersVars, scores>>

\* Promise.all resolves: setMasters, loadedOnceRef.current = true, and the
\* finally block; the evaluation form, when mounted, resizes its scores to
\* the new number of measurements.
MastersResolved(data) ==
  /\ mastersInFlight > 0
  /\ mastersInFlight' = mastersInFlight - 1
  /\ masters' = data
  /\ loadedOnceRef' = TRUE
  /\ mastersLoading' = FALSE
  /\ mastersEvent' = MastersEvent("resolved", FALSE, {})
  /\ scores' = IF pmMounted THEN SyncScores(scores, Cardinality(data["MEASUREMENT"]))
                ELSE scores
  /\ UNCHANGED nonMastersVars

\* One of the four requests fails: the catch block logs to the console, the
\* finally block clears loading.
MastersRejected_Retry ==
  /\ mastersInFlight > 0
  /\ mastersInFlight' = mastersInFlight
  /\ mastersLoading' = TRUE
  /\ mastersEvent' = MastersEvent("rejected", FALSE, MasterTypes)
  /\ UNCHANGED <<masters, loadedOnceRef>>
  /\ UNCHANGED <<nonMastersVars, scores>>

MastersRejected ==
  /\ mastersInFlight > 0
  /\ mastersInFlight' = mastersInFlight - 1
  /\ mastersLoading' = FALSE
  /\ mastersEvent' = MastersEvent("rejected", FALSE, {})
  /\ UNCHANGED <<masters, loadedOnceRef>>
  /\ UNCHANGED <<nonMastersVars, scores>>

\* The provider is mounted and its effect has called loadMasters().
InitMasters ==
  /\ masters = EmptyMasters
  /\ loadedOnceRef = FALSE
  /\ mastersLoading = TRUE
  /\ mastersInFlight = 1
  /\ mastersEvent = MastersEvent("loadMasters", FALSE, MasterTypes)

NextMasters ==
  \/ \E force \in BOOLEAN : ReloadMasters(force)
  \/ \E data \in MastersResponses : MastersResolved(data)
  \/ MastersRejected

\* ------------------------------------------------------------------------
\* PerformanceMetrics: the page (part_000)
\* ------------------------------------------------------------------------
\* the active measurements, the rows of the score table
measurementsLength == Cardinality(masters["MEASUREMENT"])

\* A request or timer of the page that has not been answered. week, typed
\* and typedWeek are what the closure that issued it had captured.
Req(kind) ==
  [kind |-> kind, week |-> EmptyStr, emp |-> EmptyStr, typed |-> EmptyStr,
   typedWeek |-> EmptyStr, method |-> "GET", evalId |-> 0, n |-> 0]

LatestWeekReq == Req("latestWeek")
EligibleEffectReq(w) == [Req("eligibleEffect") EXCEPT !.week = w]
LoadEligibleReq(w, typed) == [Req("loadEligible") EXCEPT !.week = w, !.typed = typed]
WeekChangeReq(w, typed, typedWeek) ==
  [Req("weekChange") EXCEPT !.week = w, !.typed = typed, !.typedWeek = typedWeek]
SearchTimer(typed, typedWeek) ==
  [Req("searchTimer") EXCEPT !.typed = typed, !.typedWeek = typedWeek]
SearchReq(emp) == [Req("search") EXCEPT !.emp = emp]
EmployeeExistsReq(emp) == [Req("employeeExists") EXCEPT !.emp = emp]
EvaluationReq(emp, w, n) == [Req("evaluation") EXCEPT !.emp = emp, !.week = w, !.n = n]
SubmitReq(method, emp, w, id) ==
  [Req("submit") EXCEPT !.method = method, !.emp = emp, !.week = w, !.evalId = id]

\* The effects that depend on selectedWeek, run with the week w: the latest
\* week is asked for while no week is selected; in add mode the two loaders
\* of the eligible employees; in edit and view mode the evaluation loader.
WeekEffectRequests_NoLatest(nav, ls, w, typed, n) ==
  (IF nav.mode = "add" /\ getUserRole(ls) \in EvaluatorRoles /\ WeekParses(w)
   THEN {EligibleEffectReq(w)} ELSE {})
  \cup (IF nav.mode = "add" /\ WeekParses(w) THEN {LoadEligibleReq(w, typed)} ELSE {})
  \cup (IF nav.employee # NoEmployee /\ nav.mode \in {"edit", "view"}
           /\ Truthy(w) /\ WeekParses(w)
        THEN {EvaluationReq(nav.employee, w, n)} ELSE {})

WeekEffectRequests(nav, ls, w, typed, n) ==
  (IF ~Truthy(w) THEN {LatestWeekReq} ELSE {})
  \cup WeekEffectRequests_NoLatest(nav, ls, w, typed, n)

\* both loaders clear the lists for a week that does not parse
WeekEffectClears(nav, w) == nav.mode = "add" /\ ~WeekParses(w)

NoFiltered == [items |-> {}, type |-> "none"]
FilterMessage(type) == [items |-> {}, type |-> type]
Filtered(list) == [items |-> list, type |-> "none"]

\* What the last step did: op is "mount", "input" (a handler of the form
\* other than the three named), "handleScoreChange", "handleSubmit",
\* "handleSearch" or "answered"; sent the requests it issued; failed the
\* kind of the request whose failure it handled.
PMEvent(op, sent, failed) == [op |-> op, sent |-> sent, failed |-> failed]

\* The validation modal covers the form with its backdrop: the form takes
\* input while the modal is closed.
FormUsable == pmMounted /\ ~validationModal.show

AddRequests(reqs) == pmRequests' = pmRequests \cup reqs

\* The user changes the week or the employee box, the inputs whose handlers
\* issue requests, once the requests of the input before are answered.
PageIdle == pmRequests = {}

\* setSelectedWeek(w) and the effects it triggers, for a week that differs
\* from the selected one; answered is the request this step consumes and
\* extra the requests the handler itself issues.
SetSelectedWeek(w, op, answered, extra) ==
  LET sent == extra \cup WeekEffectRequests(pmNav, localStorage, w, employeeId,
                                            measurementsLength)
  IN /\ selectedWeek' = w
     /\ pmRequests' = (pmRequests \ answered) \cup sent
     /\ eligibleEmployees' =
          IF WeekEffectClears(pmNav, w) THEN {} ELSE eligibleEmployees
     /\ filteredEmployees' =
          IF WeekEffectClears(pmNav, w) THEN NoFiltered ELSE filteredEmployees
     /\ pmEvent' = PMEvent(op, sent, "none")

\* loadLatestWeek resolves
LatestWeekResolved(r) ==
  /\ pmMounted
  /\ LatestWeekReq \in pmRequests
  /\ IF r.week = 0 \/ r.year = 0 \/ formatWeekValue(r.year, r.week) = selectedWeek
     THEN /\ pmRequests' = pmRequests \ {LatestWeekReq}
          /\ pmEvent' = PMEvent("answered", {}, "none")
          /\ UNCHANGED <<selectedWeek, eligibleEmployees, filteredEmployees>>
     ELSE SetSelectedWeek(formatWeekValue(r.year, r.week), "answered",
                          {LatestWeekReq}, {})
  /\ UNCHANGED <<pmMounted, pmNav, employeeId, employeeName, evaluationId, scores,
                 validationModal, loadingSubmit, nonPMVars>>

\* loadLatestWeek fails: the catch block logs to the console
LatestWeekRejected ==
  /\ pmMounted
  /\ LatestWeekReq \in pmRequests
  /\ pmRequests' = pmRequests \ {LatestWeekReq}
  /\ pmEvent' = PMEvent("answered", {}, "latestWeek")
  /\ UNCHANGED <<pmMounted, pmNav, selectedWeek, employeeId, employeeName,
                 evaluationId, scores, validationModal, loadingSubmit,
                 eligibleEmployees, filteredEmployees, nonPMVars>>

\* The week input changes to w (it is styled read-only in edit and view
\* mode). In add mode the handler fetches the eligible
\* employees of a week that parses and then schedules handleSearch when an
\* employee had been typed; for a week that does not parse it schedules it
\* at once.
WeekChange(w) ==
  /\ FormUsable /\ PageIdle /\ pmNav.mode \in {"add", "none"}
  /\ w # selectedWeek
  /\ SetSelectedWeek(w, "input", {},
       IF pmNav.mode # "add" THEN {}
       ELSE IF WeekParses(w) THEN {WeekChangeReq(w, employeeId, selectedWeek)}
       ELSE IF trim(employeeId) # EmptyStr THEN {SearchTimer(employeeId, selectedWeek)}
       ELSE {})
  /\ UNCHANGED <<pmMounted, pmNav, employeeId, employeeName, evaluationId, scores,
                 validationModal, loadingSubmit, nonPMVars>>

\* the fetch of the week handler is answered: list on success, then the
\* timer for handleSearch
WeekChangeAnswered(req, ok, list) ==
  /\ pmMounted
  /\ req \in pmRequests /\ req.kind = "weekChange"
  /\ LET timer == IF trim(req.typed) # EmptyStr
                  THEN {SearchTimer(req.typed, req.typedWeek)} ELSE {}
     IN /\ pmRequests' = (pmRequests \ {req}) \cup timer
        /\ pmEvent' = PMEvent("answered", timer,
                              IF ok THEN "none" ELSE "weekChange")
  /\ eligibleEmployees' = IF ok THEN list ELSE {}
  /\ UNCHANGED <<pmMounted, pmNav, selectedWeek, employeeId, employeeName,
                 evaluationId, scores, validationModal, loadingSubmit,
                 filteredEmployees, nonPMVars>>

MsgEnterEmployee == "Please enter Employee ID."
MsgValidWeek == "Please select a valid week before searching."

\* The timer of the week handler runs handleSearch with the employeeId and
\* selectedWeek of the render that created the handler.
SearchTimerFires(req) ==
  /\ pmMounted
  /\ req \in pmRequests /\ req.kind = "searchTimer"
  /\ IF ~Truthy(req.typed)
     THEN /\ validationModal' = Modal(MsgEnterEmployee)
          /\ pmRequests' = pmRequests \ {req}
          /\ pmEvent' = PMEvent("handleSearch", {}, "none")
     ELSE IF ~WeekParses(req.typedWeek)
     THEN /\ validationModal' = Modal(MsgValidWeek)
          /\ pmRequests' = pmRequests \ {req}
          /\ pmEvent' = PMEvent("handleSearch", {}, "none")
     ELSE /\ validationModal' = validationModal
          /\ pmRequests' = (pmRequests \ {req})
                             \cup {SearchReq(toUpperCase(trim(req.typed)))}
          /\ pmEvent' = PMEvent("handleSearch",
                                {SearchReq(toUpperCase(trim(req.typed)))}, "none")
  /\ UNCHANGED <<pmMounted, pmNav, selectedWeek, employeeId, employeeName,
                 evaluationId, scores, loadingSubmit, eligibleEmployees,
                 filteredEmployees, nonPMVars>>

\* GET employee/employees/<id>/ of handleSearch is answered. The catch block
\* logs to the console.
SearchAnswered(req, ok) ==
  /\ pmMounted
  /\ req \in pmRequests /\ req.kind = "search"
  /\ ok => req.emp \in Directory
  /\ pmRequests' = pmRequests \ {req}
  /\ employeeId' = IF ok THEN req.emp ELSE employeeId
  /\ employeeName' = IF ok THEN FullName(req.emp) ELSE employeeName
  /\ pmEvent' = PMEvent("answered", {}, IF ok THEN "none" ELSE "search")
  /\ UNCHANGED <<pmMounted, pmNav, selectedWeek, evaluationId, scores,
                 validationModal, loadingSubmit, eligibleEmployees,
                 filteredEmployees, nonPMVars>>

\* /^[A-Za-z ]+$/.test(s)
LettersAndSpaces(s) ==
  /\ s # <<>>
  /\ \A i \in 1..Len(s) :
       s[i] = " " \/ \E k \in 1..26 : s[i] = UpperAlpha[k] \/ s[i] = LowerAlpha[k]

EligibleByIdPrefix(upper) ==
  {emp \in eligibleEmployees : StartsWith(toUpperCase(emp), upper)}
EligibleByName(upper) ==
  {emp \in eligibleEmployees : Includes(toUpperCase(FullName(emp)), upper)}

\* The employee box changes to value (add mode only; the box trims it).
EmployeeInput(value) ==
  /\ FormUsable /\ PageIdle /\ pmNav.mode = "add"
  /\ value # employeeId
  /\ employeeId' = value
  /\ employeeName' = EmptyStr
  /\ LET upper == toUpperCase(value)
     IN IF ~Truthy(value)
        THEN /\ filteredEmployees' = NoFiltered
             /\ pmRequests' = pmRequests
             /\ pmEvent' = PMEvent("input", {}, "none")
        ELSE IF StartsWith(upper, S_EMP)
        THEN IF EligibleByIdPrefix(upper) # {}
             THEN /\ filteredEmployees' = Filtered(EligibleByIdPrefix(upper))
                  /\ pmRequests' = pmRequests
                  /\ pmEvent' = PMEvent("input", {}, "none")
             ELSE /\ filteredEmployees' = filteredEmployees
                  /\ AddRequests({EmployeeExistsReq(upper)})
                  /\ pmEvent' = PMEvent("input", {EmployeeExistsReq(upper)}, "none")
        ELSE /\ filteredEmployees' =
                  IF ~LettersAndSpaces(upper) THEN FilterMessage("invalid")
                  ELSE IF EligibleByName(upper) # {} THEN Filtered(EligibleByName(upper))
                  ELSE FilterMessage("no_match")
             /\ pmRequests' = pmRequests
             /\ pmEvent' = PMEvent("input", {}, "none")
  /\ UNCHANGED <<pmMounted, pmNav, selectedWeek, evaluationId, scores,
                 validationModal, loadingSubmit, eligibleEmployees, nonPMVars>>

\* the existence check of the employee box is answered
EmployeeExistsAnswered(req, ok) ==
  /\ pmMounted
  /\ req \in pmRequests /\ req.kind = "employeeExists"
  /\ ok => req.emp \in Directory
  /\ pmRequests' = pmRequests \ {req}
  /\ filteredEmployees' = FilterMessage(IF ok THEN "evaluated" ELSE "not_found")
  /\ pmEvent' = PMEvent("answered", {},
                        IF ok THEN "none" ELSE "employeeExists")
  /\ UNCHANGED <<pmMounted, pmNav, selectedWeek, employeeId, employeeName,
                 evaluationId, scores, validationModal, loadingSubmit,
                 eligibleEmployees, nonPMVars>>

\* onFocus of the employee box
EmployeeFocus ==
  /\ FormUsable /\ pmNav.mode = "add"
  /\ LET value == toUpperCase(trim(employeeId))
         found == IF StartsWith(value, S_EMP) THEN EligibleByIdPrefix(value)
                  ELSE EligibleByName(value)
     IN filteredEmployees' =
          IF value = EmptyStr \/ found = {} THEN Filtered(eligibleEmployees)
          ELSE Filtered(found)
  /\ pmEvent' = PMEvent("input", {}, "none")
  /\ UNCHANGED <<pmMounted, pmNav, selectedWeek, employeeId, employeeName,
                 evaluationId, scores, validationModal, loadingSubmit,
                 eligibleEmployees, pmRequests, nonPMVars>>

\* onBlur of the employee box, its timer included
EmployeeBlur ==
  /\ FormUsable /\ pmNav.mode = "add"
  /\ filteredEmployees' = NoFiltered
  /\ pmEvent' = PMEvent("input", {}, "none")
  /\ UNCHANGED <<pmMounted, pmNav, selectedWeek, employeeId, employeeName,
                 evaluationId, scores, validationModal, loadingSubmit,
                 eligibleEmployees, pmRequests, nonPMVars>>

\* onMouseDown on an employee of the dropdown
SelectEmployee(emp) ==
  /\ FormUsable /\ pmNav.mode = "add"
  /\ emp \in filteredEmployees.items
  /\ employeeId' = emp
  /\ employeeName' = FullName(emp)
  /\ filteredEmployees' = NoFiltered
  /\ pmEvent' = PMEvent("input", {}, "none")
  /\ UNCHANGED <<pmMounted, pmNav, selectedWeek, evaluationId, scores,
                 validationModal, loadingSubmit, eligibleEmployees, pmRequests,
                 nonPMVars>>

\* the request of the first eligible-employees effect is answered
EligibleEffectAnswered(req, ok, list) ==
  /\ pmMounted
  /\ req \in pmRequests /\ req.kind = "eligibleEffect"
  /\ pmRequests' = pmRequests \ {req}
  /\ eligibleEmployees' = IF ok THEN list ELSE {}
  /\ filteredEmployees' = NoFiltered
  /\ pmEvent' = PMEvent("answered", {},
                        IF ok THEN "none" ELSE "eligibleEffect")
  /\ UNCHANGED <<pmMounted, pmNav, selectedWeek, employeeId, employeeName,
                 evaluationId, scores, validationModal, loadingSubmit, nonPMVars>>

\* loadEligible is answered: the list is filtered again by what had been
\* typed when the effect ran
LoadEligibleAnswered(req, ok, list) ==
  /\ pmMounted
  /\ req \in pmRequests /\ req.kind = "loadEligible"
  /\ pmRequests' = pmRequests \ {req}
  /\ eligibleEmployees' = IF ok THEN list ELSE {}
  /\ filteredEmployees' =
       IF ~ok THEN NoFiltered
       ELSE IF trim(req.typed) = EmptyStr THEN filteredEmployees
       ELSE Filtered({emp \in list :
               \/ Includes(toUpperCase(emp), toUpperCase(req.typed))
               \/ Includes(toUpperCase(FullName(emp)), toUpperCase(req.typed))})
  /\ pmEvent' = PMEvent("answered", {},
                        IF ok THEN "none" ELSE "loadEligible")
  /\ UNCHANGED <<pmMounted, pmNav, selectedWeek, employeeId, employeeName,
                 evaluationId, scores, validationModal, loadingSubmit, nonPMVars>>

\* The score input of row index changes to value. The inputs are read-only
\* in view mode and while no employee name is loaded.
HandleScoreChange(index, value) ==
  /\ FormUsable /\ pmNav.mode # "view"
  /\ Truthy(employeeName)
  /\ index \in 1..measurementsLength
  /\ LET r == handleScoreChange(scores, validationModal, index, value)
     IN /\ scores' = r.scores
        /\ validationModal' = r.modal
  /\ pmEvent' = PMEvent("handleScoreChange", {}, "none")
  /\ UNCHANGED <<pmMounted, pmNav, selectedWeek, employeeId, employeeName,
                 evaluationId, loadingSubmit, eligibleEmployees,
                 filteredEmployees, pmRequests, nonPMVars>>

\* handleCancel (the button shows in add mode)
HandleCancel ==
  /\ FormUsable /\ pmNav.mode = "add"
  /\ scores' = Fill(measurementsLength)
  /\ pmEvent' = PMEvent("input", {}, "none")
  /\ UNCHANGED <<pmMounted, pmNav, selectedWeek, employeeId, employeeName,
                 evaluationId, validationModal, loadingSubmit, eligibleEmployees,
                 filteredEmployees, pmRequests, nonPMVars>>

\* scores.every and scores.some do not visit holes
AllFilled(sc, n) ==
  /\ Len(sc) = n
  /\ \A i \in 1..Len(sc) : sc[i] = Hole \/ (sc[i] # EmptyStr /\ sc[i] # Undefined)

AnyInvalid(sc) ==
  \E i \in 1..Len(sc) :
    /\ sc[i] # Hole
    /\ LET x == NumberOfScore(sc[i])
       IN IsNaN(x) \/ NumLess(x, 0) \/ NumGreater(x, MaxScore)

MsgSelectEmployee == "Please search and select an employee first."
MsgLoadEmployee ==
  "Please search and load employee details before entering performance metrics."
MsgFillAll == "Please fill all performance metrics before submitting."
MsgAllValid == "All scores must be valid numbers between 0 and 100."
MsgOnlyEvaluators == "Only Admin or Manager can submit evaluations."
MsgSelectWeek == "Please select a week for evaluation."
MsgUnexpected == "Unexpected server response. Please try again."
MsgServer == "Unable to process your request. Please try again."
MsgNoEvaluation == "No evaluation found for this employee."
MsgLoadFailed == "Failed to load evaluation data."

\* the checks of handleSubmit in their order: the message of the first
\* that fails, "" when all pass
SubmitCheck_NoRange ==
  IF ~Truthy(employeeId) THEN MsgSelectEmployee
  ELSE IF ~Truthy(employeeName) THEN MsgLoadEmployee
  ELSE IF ~AllFilled(scores, measurementsLength) THEN MsgFillAll
  ELSE IF getUserRole(localStorage) \notin EvaluatorRoles THEN MsgOnlyEvaluators
  ELSE IF ~Truthy(selectedWeek) THEN MsgSelectWeek
  ELSE ""

SubmitCheck ==
  IF ~Truthy(employeeId) THEN MsgSelectEmployee
  ELSE IF ~Truthy(employeeName) THEN MsgLoadEmployee
  ELSE IF ~AllFilled(scores, measurementsLength) THEN MsgFillAll
  ELSE IF AnyInvalid(scores) THEN MsgAllValid
  ELSE IF getUserRole(localStorage) \notin EvaluatorRoles THEN MsgOnlyEvaluators
  ELSE IF ~Truthy(selectedWeek) THEN MsgSelectWeek
  ELSE ""

\* the request handleSubmit sends once the checks have passed
SubmitRequest ==
  SubmitReq(IF evaluationId # 0 /\ pmNav.mode = "edit" THEN "PUT" ELSE "POST",
            trim(employeeId), selectedWeek, evaluationId)

\* handleSubmit up to its await. The submit button is not rendered in view
\* mode and is disabled while a submit is in flight.
HandleSubmit ==
  /\ FormUsable /\ pmNav.mode # "view"
  /\ ~loadingSubmit
  /\ IF SubmitCheck # ""
     THEN /\ validationModal' = Modal(SubmitCheck)
          /\ pmEvent' = PMEvent("handleSubmit", {}, "none")
          /\ UNCHANGED <<loadingSubmit, pmRequests>>
     ELSE /\ AddRequests({SubmitRequest})
          /\ loadingSubmit' = TRUE
          /\ pmEvent' = PMEvent("handleSubmit", {SubmitRequest}, "none")
          /\ UNCHANGED validationModal
  /\ UNCHANGED <<pmMounted, pmNav, selectedWeek, employeeId, employeeName,
                 evaluationId, scores, eligibleEmployees, filteredEmployees,
                 nonPMVars>>

\* The POST or PUT is answered: with 200 or 201, with another status, or
\* with an error.
SubmitOutcomes == {"success", "unexpected", "error"}

SubmitAnswered(req, outcome) ==
  /\ pmMounted
  /\ req \in pmRequests /\ req.kind = "submit"
  /\ pmRequests' = pmRequests \ {req}
  /\ loadingSubmit' = FALSE
  /\ validationModal' =
       IF outcome = "unexpected" THEN Modal(MsgUnexpected)
       ELSE IF outcome = "error" THEN Modal(MsgServer)
       ELSE validationModal
  /\ pmEvent' = PMEvent("answered", {},
                        IF outcome = "success" THEN "none" ELSE "submit")
  /\ UNCHANGED <<pmMounted, pmNav, selectedWeek, employeeId, employeeName,
                 evaluationId, scores, eligibleEmployees, filteredEmployees,
                 nonPMVars>>

\* What metrics[key] ?? "" yields for a stored evaluation: a number within
\* the range or one above it. A JSON number is carried
\* as its decimal text, which Number, isNaN, < and > treat alike.
S_50 == <<"5","0">>
S_150 == <<"1","5","0">>
BackendMetricValues == {S_50, S_150}

\* evalData for the n measurements the effect had seen, or none
EvaluationResponses(n) ==
  {[found |-> TRUE, id |-> 1, metrics |-> m] : m \in [1..n -> BackendMetricValues]}
    \cup {[found |-> FALSE, id |-> 0, metrics |-> Fill(n)]}

\* loadEmployeeEvaluation is answered. Its closure maps the measurements of
\* the render in which the effect ran.
EvaluationAnswered(req, ok, data) ==
  /\ pmMounted
  /\ req \in pmRequests /\ req.kind = "evaluation"
  /\ pmRequests' = pmRequests \ {req}
  /\ IF ok /\ data.found
     THEN /\ evaluationId' = data.id
          /\ scores' = data.metrics
          /\ employeeName' = FullName(req.emp)
          /\ UNCHANGED validationModal
     ELSE /\ validationModal' = Modal(IF ok THEN MsgNoEvaluation ELSE MsgLoadFailed)
          /\ scores' = Fill(req.n)
          /\ UNCHANGED <<evaluationId, employeeName>>
  /\ pmEvent' = PMEvent("answered", {}, IF ok THEN "none" ELSE "evaluation")
  /\ UNCHANGED <<pmMounted, pmNav, selectedWeek, employeeId, loadingSubmit,
                 eligibleEmployees, filteredEmployees, nonPMVars>>

\* the close button and OK of the validation modal
CloseModal ==
  /\ pmMounted
  /\ validationModal.show
  /\ validationModal' = NoModal
  /\ pmEvent' = PMEvent("input", {}, "none")
  /\ UNCHANGED <<pmMounted, pmNav, selectedWeek, employeeId, employeeName,
                 evaluationId, scores, loadingSubmit, eligibleEmployees,
                 filteredEmployees, pmRequests, nonPMVars>>

\* the page is not mounted
InitPMClosed ==
  /\ pmMounted = FALSE
  /\ pmNav = [mode |-> "none", employee |-> NoEmployee, week |-> Null]
  /\ selectedWeek = EmptyStr
  /\ employeeId = EmptyStr
  /\ employeeName = EmptyStr
  /\ evaluationId = 0
  /\ scores = <<>>
  /\ validationModal = NoModal
  /\ loadingSubmit = FALSE
  /\ eligibleEmployees = {}
  /\ filteredEmployees = NoFiltered
  /\ pmRequests = {}
  /\ pmEvent = PMEvent("init", {}, "none")

\* The states of GenericCRUDPage as useState creates them.
DefaultPageSize == 10

NoAlert == [type |-> "", message |-> <<>>]
Alert(type, message) == [type |-> type, message |-> message]

\* What the last step did: op is "mount", the setter of the table called,
\* "saveItem", "form" (another handler of the modal or the button that opens
\* it), "closeAlert" or "answered" (a request has been answered), with the
\* requests the step sent and whether it handled a failed request. last is
\* the setter of the filter, the page size or the sort order when no setter
\* of the table has been called since ("none" otherwise), and clean tells
\* that no list request has failed since that call.
CrudEvent(op, sent, failed, last, clean) ==
  [op |-> op, sent |-> sent, failed |-> failed, last |-> last, clean |-> clean]

\* the form of AddNewModal; picked records that its managers were chosen in
\* the manager select since the department was last set
EmptyForm == [department_id |-> 0, managers |-> {}, picked |-> FALSE]

\* no master page is mounted
InitCrudClosed ==
  /\ crudPage = "none"
  /\ backendRows = <<>>
  /\ statusFilter = "Active"
  /\ sortOrder = "desc"
  /\ pageSize = DefaultPageSize
  /\ currentPage = 1
  /\ totalPages = 1
  /\ totalRecords = 0
  /\ items = <<>>
  /\ crudLoading = TRUE
  /\ alert = NoAlert
  /\ listRequests = {}
  /\ crudEvent = CrudEvent("init", {}, FALSE, "none", TRUE)
  /\ showForm = FALSE
  /\ editItem = 0
  /\ form = EmptyForm
  /\ selectedDepartment = 0
  /\ managers = {}
  /\ managerRequests = 0
  /\ saveRequests = {}

\* no arguments given to formatWeekValue; parseWeek not yet called
NoArgs == [year |-> 0, week |-> 0]
Unparsed == [year |-> NaN, week |-> NullNum]

\* no week string is at hand
InitWeekClosed ==
  /\ weekArgs = NoArgs
  /\ weekText = Null
  /\ weekParsed = Unparsed

\* no row is the target of a status action
NoTarget == [id |-> 0, status |-> ""]

\* neither modal of the status action is open
InitDeleteClosed ==
  /\ deleteTarget = NoTarget
  /\ deleteLoading = FALSE
  /\ deptDeactivateTarget = NoTarget
  /\ deptDeactivateLoading = FALSE
  /\ reason = EmptyStr
  /\ preview = "null"
  /\ previewLoading = FALSE
  /\ statusRequests = {}
  /\ deactivateRequests = {}
  /\ renderError = FALSE

\* the sections of the profile and the fields of each that the model carries
Sections == {"personal", "professional", "address"}
FieldsOf(section) ==
  IF section = "personal" THEN {"gender", "profile_picture_url"}
  ELSE IF section = "professional" THEN {"project_name"}
  ELSE {"city"}

\* the values of a field
MaxValue == 1
Values == 0..MaxValue
\* the fields with an input in edit mode
InputsOf(section) == FieldsOf(section) \ {"profile_picture_url"}
\* the profile_picture_url of a response: none (0) or the uploaded one
PictureUrls == {0, 1}

\* the data of a section with every field 0
NoData(section) == [f \in FieldsOf(section) |-> 0]
NoFile == [size |-> 0, type |-> "none"]
NoCheck == [valid |-> FALSE, error |-> "none"]
ProfileEvent(op, section) == [op |-> op, section |-> section, file |-> NoFile]

\* Profile as useState creates it from the props given, no section edited,
\* with the picture file chosen since (NoFile: none)
ProfileOpenWith(props, file) ==
  /\ editingSections = [x \in Sections |-> FALSE]
  /\ formData = props
  /\ originalData = props
  /\ saving = FALSE
  /\ profileSaves = {}
  /\ profilePicture = file
  /\ pictureCheck = IF file = NoFile THEN NoCheck ELSE [valid |-> TRUE, error |-> ""]
  /\ enteredData = [x \in Sections |-> NoData(x)]
  /\ profileEvent = ProfileEvent("mount", "none")

\* Profile as useState creates it
ProfileMountedWith(props) == ProfileOpenWith(props, NoFile)

\* the profile with every field 0
InitProfileClosed ==
  ProfileMountedWith([x \in Sections |-> NoData(x)])

\* the components apart from the pages are in their first state
InitRestClosed == InitWeekClosed /\ InitDeleteClosed /\ InitProfileClosed

\* The page has mounted with location.state nav and its effects have run:
\* the first pass with selectedWeek "" asks for the latest week and fills
\* the employee of the state; the navigated week is then selected and the
\* effects that depend on the week run again.
PMMountedWith(nav) ==
  LET week == IF Truthy(nav.week) THEN nav.week ELSE EmptyStr
      id   == IF nav.employee # NoEmployee /\ nav.mode = "edit"
              THEN nav.employee ELSE EmptyStr
  IN /\ pmMounted = TRUE
     /\ pmNav = nav
     /\ selectedWeek = week
     /\ employeeId = id
     /\ employeeName = IF nav.employee # NoEmployee THEN FullName(nav.employee)
                       ELSE EmptyStr
     /\ evaluationId = 0
     /\ scores = SyncScores(<<>>, measurementsLength)
     /\ validationModal = NoModal
     /\ loadingSubmit = FALSE
     /\ eligibleEmployees = {}
     /\ filteredEmployees = NoFiltered
     /\ pmRequests = {LatestWeekReq}
          \cup WeekEffectRequests(nav, localStorage, week, id, measurementsLength)
     /\ pmEvent = PMEvent("mount",
          {LatestWeekReq} \cup WeekEffectRequests(nav, localStorage, week, id,
                                                   measurementsLength), "none")

\* A signed-in browser showing a page of the layout: the stored role, and the
\* role of the stored user object, are whatever the session has left there.
PageSessions ==
  {[role |-> S_MANAGER, user |-> Null], [role |-> S_employee, user |-> Null],
   [role |-> S_employee, user |-> S_Admin]}
\* the session of an administrator, who keeps the masters
AdminSessions == {[role |-> S_Admin, user |-> Null]}
InitSignedIn(pageName, sessions) ==
  /\ localStorage \in
       {[k \in StorageKeys |->
           IF k = "access_token" THEN Token("exp", MaxExp)
           ELSE IF k = "role" THEN s.role ELSE s.user]
         : s \in sessions}
  /\ sessionStorage = TRUE
  /\ clock = 0
  /\ appPhase = "ready"
  /\ location = pageName
  /\ layoutMounted = TRUE
  /\ page = pageName
  /\ sidebarRole = SidebarReadRole(localStorage)
  /\ storageEvents = 0
  /\ pendingNav = "none"
  /\ historyMounted = FALSE
  /\ authEvent = Event("init")

\* what the user types into a score input of the form
FormScoreInputs == {EmptyStr, <<"5">>}

\* every master type loaded, with MaxItems departments and measurements
InitMastersLoaded ==
  /\ masters = [t \in MasterTypes |->
                  IF t \in {"DEPARTMENT", "MEASUREMENT"} THEN 1..MaxItems ELSE {1}]
  /\ loadedOnceRef = TRUE
  /\ mastersLoading = FALSE
  /\ mastersInFlight = 0
  /\ mastersEvent = MastersEvent("resolved", FALSE, {})

\* The form opened from the list to add an evaluation (or without a state),
\* the masters having been loaded before.
InitPMAdd ==
  /\ InitSignedIn("/theme/performancemetrics", PageSessions)
  /\ InitMastersLoaded
  /\ InitCrudClosed
  /\ InitRestClosed
  /\ \E nav \in AddEntries : PMMountedWith(nav)

NextPMAdd ==
  \/ \E r \in LatestWeekResponses : LatestWeekResolved(r)
  \/ LatestWeekRejected
  \/ \E w \in WeekInputs : WeekChange(w)
  \/ \E req \in pmRequests : \E list \in SUBSET Directory :
       WeekChangeAnswered(req, TRUE, list)
  \/ \E req \in pmRequests : WeekChangeAnswered(req, FALSE, {})
  \/ \E req \in pmRequests : SearchTimerFires(req)
  \/ \E req \in pmRequests : \E ok \in BOOLEAN : SearchAnswered(req, ok)
  \/ \E value \in TypedEmployeeInputs : EmployeeInput(value)
  \/ \E req \in pmRequests : \E ok \in BOOLEAN : EmployeeExistsAnswered(req, ok)
  \/ EmployeeFocus
  \/ EmployeeBlur
  \/ \E emp \in Directory : SelectEmployee(emp)
  \/ \E req \in pmRequests : \E list \in SUBSET Directory :
       EligibleEffectAnswered(req, TRUE, list)
  \/ \E req \in pmRequests : EligibleEffectAnswered(req, FALSE, {})
  \/ \E req \in pmRequests : \E list \in SUBSET Directory :
       LoadEligibleAnswered(req, TRUE, list)
  \/ \E req \in pmRequests : LoadEligibleAnswered(req, FALSE, {})
  \/ \E i \in 1..MaxItems, v \in FormScoreInputs : HandleScoreChange(i, v)
  \/ HandleCancel
  \/ HandleSubmit
  \/ \E req \in pmRequests : \E o \in SubmitOutcomes : SubmitAnswered(req, o)
  \/ CloseModal

SpecPMAdd == InitPMAdd /\ [][NextPMAdd]_vars

\* The form opened from the list to edit or view an evaluation while the
\* masters are still being loaded (the page reloaded in the browser).
InitPMEdit ==
  /\ InitSignedIn("/theme/performancemetrics", PageSessions)
  /\ InitMasters
  /\ InitCrudClosed
  /\ InitRestClosed
  /\ \E nav \in EditEntries : PMMountedWith(nav)

NextPMEdit ==
  \/ \E r \in LatestWeekResponses : LatestWeekResolved(r)
  \/ LatestWeekRejected
  \/ \E i \in 1..MaxItems, v \in FormScoreInputs : HandleScoreChange(i, v)
  \/ HandleSubmit
  \/ \E req \in pmRequests : \E o \in SubmitOutcomes : SubmitAnswered(req, o)
  \/ \E req \in pmRequests : \E data \in EvaluationResponses(req.n) :
       EvaluationAnswered(req, TRUE, data)
  \/ \E req \in pmRequests : EvaluationAnswered(req, FALSE, [found |-> FALSE])
  \/ CloseModal
  \/ \E data \in MeasurementResponses : MastersResolved(data)
  \/ MastersRejected

SpecPMEdit == InitPMEdit /\ [][NextPMEdit]_vars

\* What handleScoreChange is given: "", "0", numbers with leading zeros,
\* the ends of the range, numbers outside it, fractions and text.
ScoreInputs ==
  {EmptyStr, <<"0">>, <<"0","7">>, <<"0","0">>, <<"1","0","0">>,
   <<"1","0","1">>, <<"1","0","0",".","5">>, <<"-","1">>, <<"-","0">>,
   <<"0",".","5">>, <<"a">>, <<"0","a">>}

\* The add form with an employee selected and the scores all empty.
InitScores ==
  /\ InitSignedIn("/theme/performancemetrics", PageSessions)
  /\ InitMastersLoaded
  /\ InitCrudClosed
  /\ InitRestClosed
  /\ pmMounted = TRUE
  /\ pmNav = [mode |-> "add", employee |-> NoEmployee, week |-> S_W02]
  /\ selectedWeek = S_W02
  /\ employeeId = S_EMP1
  /\ employeeName = FullName(S_EMP1)
  /\ evaluationId = 0
  /\ scores = Fill(measurementsLength)
  /\ validationModal = NoModal
  /\ loadingSubmit = FALSE
  /\ eligibleEmployees = {S_EMP1}
  /\ filteredEmployees = NoFiltered
  /\ pmRequests = {}
  /\ pmEvent = PMEvent("input", {}, "none")

NextScores ==
  \/ \E i \in 1..MaxItems, v \in ScoreInputs : HandleScoreChange(i, v)
  \/ CloseModal

SpecScores == InitScores /\ [][NextScores]_vars

\* ------------------------------------------------------------------------
\* GenericCRUDPage: the list, its filter and its pagination (part_001)
\* ------------------------------------------------------------------------
\* the rows the backend holds for the list page
MaxRows == 12
\* the page number the pagination buttons are followed up to
MaxPage == 3

\* A row of a master list; department_name and managers are those of a
\* project (a department is named by its id, a manager by their id).
Row(id, status, dept, mgrs) ==
  [id |-> id, status |-> status, department_name |-> dept, managers |-> mgrs]

\* the options of the status select of TablePanel
StatusFilters == {"Active", "Inactive", "All"}
\* the options of the page size select
PageSizes == {10, 25, 50}

\* the ordering parameter loadItems sends
Ordering(sort) == IF sort = "desc" THEN "-created_at" ELSE "created_at"

\* One call of MasterAPI.list with the parameters loadItems captured; then
\* names the handler that awaits the call ("none" for the effect).
ListReq(status, pg, size, sort, then) ==
  [status |-> status, page |-> pg, pageSize |-> size,
   ordering |-> Ordering(sort), then |-> then]

\* GET /masters/: the rows of the status asked for (every row for "All",
\* where no status parameter is sent), ordered by creation, cut into pages.
Matching(rows, status) ==
  {i \in 1..Len(rows) : status = "All" \/ rows[i].status = status}

RECURSIVE Ascending(_)
Ascending(S) ==
  IF S = {} THEN <<>> ELSE <<SetMin(S)>> \o Ascending(S \ {SetMin(S)})

Reverse(q) == [i \in 1..Len(q) |-> q[Len(q) + 1 - i]]

Ordered(rows, status, ordering) ==
  LET asc == Ascending(Matching(rows, status))
      ord == IF ordering = "-created_at" THEN Reverse(asc) ELSE asc
  IN [i \in 1..Len(ord) |-> rows[ord[i]]]

CeilDiv(a, b) == (a + b - 1) \div b

\* what MasterAPI.list returns for a request the backend answers
ListAnswer(rows, req) ==
  LET all  == Ordered(rows, req.status, req.ordering)
      from == (req.page - 1) * req.pageSize + 1
      to   == IF req.page * req.pageSize < Len(all)
              THEN req.page * req.pageSize ELSE Len(all)
  IN [results    |-> SubSeq(all, from, to),
      count      |-> Len(all),
      totalPages |-> CeilDiv(Len(all), req.pageSize)]

\* The user of a master page waits for its requests to be answered before
\* the next click in the table or in the form.
PageQuiet ==
  /\ listRequests = {}
  /\ saveRequests = {}
  /\ managerRequests = 0
  /\ mastersInFlight = 0
  /\ statusRequests = {}

\* neither ConfirmDeleteModal nor DeactivateDepartmentModal is shown
NoStatusModal == deleteTarget = NoTarget /\ deptDeactivateTarget = NoTarget

\* the table takes clicks: the page is mounted and no modal covers it
TableUsable == crudPage # "none" /\ ~showForm /\ NoStatusModal /\ PageQuiet

\* the modal takes clicks
FormUsableCrud == crudPage # "none" /\ showForm /\ PageQuiet

\* The effects that follow a render in which loadItems has changed: the
\* effect on [loadItems] calls it with the page still shown; when one of
\* statusFilter, pageSize, sortOrder has changed, the second effect sets
\* currentPage to 1 and, the page having been another, the next render
\* calls loadItems again.
LoadItemsEffect(st, so, ps, pg, filterChanged) ==
  [page     |-> IF filterChanged THEN 1 ELSE pg,
   requests |-> {ListReq(st, pg, ps, so, "none")}
                  \cup IF filterChanged THEN {ListReq(st, 1, ps, so, "none")}
                       ELSE {}]

\* a setter of the table has changed one of the four states
ListStateChange(op, st, so, ps, pg, filterChanged) ==
  LET eff == LoadItemsEffect(st, so, ps, pg, filterChanged)
  IN /\ statusFilter' = st
     /\ sortOrder' = so
     /\ pageSize' = ps
     /\ currentPage' = eff.page
     /\ listRequests' = listRequests \cup eff.requests
     /\ crudLoading' = TRUE
     /\ crudEvent' = CrudEvent(op, eff.requests, FALSE, IF filterChanged THEN op ELSE "none", TRUE)
     /\ UNCHANGED <<crudPage, backendRows, totalPages, totalRecords, items, alert>>
     /\ UNCHANGED <<crudFormVars, mastersVars, nonCrudVars>>

\* the status select of TablePanel
SetStatusFilter(value) ==
  /\ TableUsable
  /\ value # statusFilter
  /\ ListStateChange("setStatusFilter", value, sortOrder, pageSize, currentPage, TRUE)

\* the sort button
OnToggleSort ==
  /\ TableUsable
  /\ ListStateChange("onToggleSort", statusFilter,
                     IF sortOrder = "desc" THEN "asc" ELSE "desc",
                     pageSize, currentPage, TRUE)

\* the page size select, shown while totalRecords > 0
SetPageSize(value) ==
  /\ TableUsable
  /\ totalRecords > 0
  /\ value # pageSize
  /\ ListStateChange("setPageSize", statusFilter, sortOrder, value, currentPage, TRUE)

\* The pages the pagination buttons lead to: first and previous unless the
\* page is 1, the numbered buttons, next and last unless the page is the
\* last one.
PageTargets ==
  (IF currentPage # 1 THEN {1, currentPage - 1} ELSE {})
    \cup 1..totalPages
    \cup (IF currentPage # totalPages THEN {currentPage + 1, totalPages} ELSE {})

SetCurrentPage(pg) ==
  /\ TableUsable
  /\ totalRecords > 0
  /\ pg \in PageTargets
  /\ pg # currentPage
  /\ pg \in 1..MaxPage
  /\ ListStateChange("setCurrentPage", statusFilter, sortOrder, pageSize, pg, FALSE)

MsgFailedToLoad == <<"Failed to load", crudPage>>
MsgCreated == <<crudPage, "created successfully">>
MsgUpdated == <<crudPage, "updated successfully">>
MsgFailedToSave == <<"Failed to save", crudPage>>
MsgDepartmentRequired == <<"Department is required">>

\* A call of MasterAPI.list is answered: the try block sets the items and
\* the totals, the catch block the alert, finally clears loading; saveItem,
\* when it awaits the call, then reports success and closes the form.
ListAnswered(req, ok) ==
  LET res == ListAnswer(backendRows, req)
  IN /\ req \in listRequests
     /\ req.then \in {"none", "created", "updated"}
     /\ listRequests' = listRequests \ {req}
     /\ items' = IF ok THEN res.results ELSE items
     /\ totalPages' = IF ok THEN res.totalPages ELSE totalPages
     /\ totalRecords' = IF ok THEN res.count ELSE totalRecords
     /\ crudLoading' = FALSE
     /\ alert' = IF req.then = "created" THEN Alert("success", MsgCreated)
                 ELSE IF req.then = "updated" THEN Alert("success", MsgUpdated)
                 ELSE IF ok THEN alert
                 ELSE Alert("danger", MsgFailedToLoad)
     /\ showForm' = IF req.then = "none" THEN showForm ELSE FALSE
     /\ editItem' = IF req.then = "none" THEN editItem ELSE 0
     /\ form' = IF req.then = "none" THEN form ELSE EmptyForm
     /\ crudEvent' = CrudEvent("answered", {}, ~ok, crudEvent.last,
                               crudEvent.clean /\ (ok \/ crudEvent.last = "none"))
     /\ UNCHANGED <<crudPage, backendRows, statusFilter, sortOrder, pageSize,
                    currentPage>>
     /\ UNCHANGED <<selectedDepartment, managers, managerRequests, saveRequests>>
     /\ UNCHANGED <<mastersVars, nonCrudVars>>

\* the close button of AlertMessage
CloseAlert ==
  /\ crudPage # "none"
  /\ ~showForm
  /\ alert.message # <<>>
  /\ alert' = NoAlert
  /\ crudEvent' = CrudEvent("closeAlert", {}, FALSE, crudEvent.last, crudEvent.clean)
  /\ UNCHANGED <<crudPage, backendRows, statusFilter, sortOrder, pageSize,
                 currentPage, totalPages, totalRecords, items, crudLoading,
                 listRequests>>
  /\ UNCHANGED <<crudFormVars, mastersVars, nonCrudVars>>

\* The page of a master type has mounted over the rows the backend holds:
\* the states are the useState defaults and the effect has called loadItems.
CrudMountedWith(type, rows) ==
  /\ crudPage = type
  /\ backendRows = rows
  /\ statusFilter = "Active"
  /\ sortOrder = "desc"
  /\ pageSize = DefaultPageSize
  /\ currentPage = 1
  /\ totalPages = 1
  /\ totalRecords = 0
  /\ items = <<>>
  /\ crudLoading = TRUE
  /\ alert = NoAlert
  /\ listRequests = {ListReq("Active", 1, DefaultPageSize, "desc", "none")}
  /\ crudEvent = CrudEvent("mount", {ListReq("Active", 1, DefaultPageSize, "desc", "none")},
                          FALSE, "none", TRUE)
  /\ showForm = FALSE
  /\ editItem = 0
  /\ form = EmptyForm
  /\ selectedDepartment = 0
  /\ saveRequests = {}

\* the roles the backend holds: the newest one inactive, the others active
RoleRows ==
  [i \in 1..MaxRows |-> Row(i, IF i = MaxRows THEN "Inactive" ELSE "Active", 0, {})]

\* RolesPage, opened by an administrator
InitCrudList ==
  /\ InitSignedIn("/masters/roles", AdminSessions)
  /\ InitMastersLoaded
  /\ InitPMClosed
  /\ InitRestClosed
  /\ CrudMountedWith("ROLE", RoleRows)
  /\ managers = {}
  /\ managerRequests = 0

NextCrudList ==
  \/ \E value \in StatusFilters : SetStatusFilter(value)
  \/ OnToggleSort
  \/ \E value \in PageSizes : SetPageSize(value)
  \/ \E pg \in 1..MaxPage : SetCurrentPage(pg)
  \/ \E req \in listRequests : \E ok \in BOOLEAN : ListAnswered(req, ok)
  \/ CloseAlert

SpecCrudList == InitCrudList /\ [][NextCrudList]_vars

\* ------------------------------------------------------------------------
\* ProjectsPage and AddNewModal: the project form (part_001)
\* ------------------------------------------------------------------------

\* GET /employee/employees/ with role Manager: the active managers; the
\* manager m works in the department m.
ManagerIds == 1..MaxItems
ManagerDept(m) == m

\* ProjectsPage.onDepartmentChange: the id, or null for a falsy one
onDepartmentChange(deptId) == IF deptId # 0 THEN deptId ELSE 0

\* ProjectsPage.filteredManagers: every manager while no department is
\* selected, none when the department selected is not among the masters,
\* else the managers of that department.
filteredManagers(sel, mgrs, depts) ==
  IF sel = 0 THEN mgrs
  ELSE IF sel \notin depts THEN {}
  ELSE {m \in mgrs : ManagerDept(m) = sel}

\* The options of a select of the form: the placeholder (0) when the form
\* adds an item, then the departments of the masters or the managers left
\* by the department selected.
SelectKeys == {"department_id", "managers"}

Options(key) ==
  (IF editItem = 0 THEN {0} ELSE {})
    \cup IF key = "department_id" THEN masters["DEPARTMENT"]
         ELSE filteredManagers(selectedDepartment, managers, masters["DEPARTMENT"])

\* the value prop of the select, and the option the browser shows for it:
\* the first one when no option has that value
ValueOf(f, key) ==
  IF key = "department_id" THEN f.department_id
  ELSE IF f.managers = {} THEN 0 ELSE SetMin(f.managers)

Displayed(key) ==
  IF ValueOf(form, key) \in Options(key) THEN ValueOf(form, key)
  ELSE IF Options(key) = {} THEN -1
  ELSE SetMin(Options(key))

\* onChange of a select of AddNewModal: the new form
onChange_KeepManagers(f, key, value) ==
  IF key = "managers"
  THEN [f EXCEPT !.managers = IF value # 0 THEN {value} ELSE {},
                 !.picked = value # 0]
  ELSE [f EXCEPT !.department_id = value]

onChange(f, key, value) ==
  IF key = "managers"
  THEN [f EXCEPT !.managers = IF value # 0 THEN {value} ELSE {},
                 !.picked = value # 0]
  ELSE [department_id |-> value, managers |-> {}, picked |-> FALSE]

FormEvent(op, sent, failed) ==
  CrudEvent(op, sent, failed, crudEvent.last, crudEvent.clean)

\* fetchManagers?.() as the part of a step that calls it
FetchManagersCall ==
  IF crudPage = "PROJECT"
  THEN managerRequests' = managerRequests + 1
  ELSE managerRequests' = managerRequests

SelectChange(key, value) ==
  /\ crudPage = "PROJECT"
  /\ FormUsableCrud
  /\ value \in Options(key)
  /\ value # Displayed(key)
  /\ form' = onChange(form, key, value)
  /\ selectedDepartment' = IF key = "department_id" THEN onDepartmentChange(value)
                           ELSE selectedDepartment
  /\ crudEvent' = FormEvent("form", {}, FALSE)
  /\ UNCHANGED <<showForm, editItem, managers, managerRequests, saveRequests>>
  /\ UNCHANGED listVars
  /\ UNCHANGED <<mastersVars, nonCrudVars>>

\* onAddNew of TablePanel
OnAddNew ==
  /\ TableUsable
  /\ FetchManagersCall
  /\ selectedDepartment' = IF crudPage = "PROJECT" THEN onDepartmentChange(0)
                           ELSE selectedDepartment
  /\ editItem' = 0
  /\ showForm' = TRUE
  /\ form' = EmptyForm
  /\ crudEvent' = FormEvent("form", {}, FALSE)
  /\ UNCHANGED <<managers, saveRequests>>
  /\ UNCHANGED listVars
  /\ UNCHANGED <<mastersVars, nonCrudVars>>

\* editItemHandler(row): the department of the row is looked up among the
\* department masters by its name and the managers among the managers
\* fetched; the modal then opens on the normalized row.
Normalized(row) ==
  [department_id |-> IF crudPage = "PROJECT"
                        /\ row.department_name \in masters["DEPARTMENT"]
                     THEN row.department_name ELSE 0,
   managers      |-> IF crudPage = "PROJECT" THEN row.managers \cap managers
                     ELSE {},
   picked        |-> FALSE]

EditItemHandler(row) ==
  /\ TableUsable
  /\ \E i \in 1..Len(items) : items[i] = row
  /\ FetchManagersCall
  /\ selectedDepartment' = IF Normalized(row).department_id # 0
                           THEN onDepartmentChange(Normalized(row).department_id)
                           ELSE selectedDepartment
  /\ editItem' = row.id
  /\ showForm' = TRUE
  /\ form' = Normalized(row)
  /\ crudEvent' = FormEvent("form", {}, FALSE)
  /\ UNCHANGED <<managers, saveRequests>>
  /\ UNCHANGED listVars
  /\ UNCHANGED <<mastersVars, nonCrudVars>>

\* onCancel of AddNewModal
CancelForm ==
  /\ FormUsableCrud
  /\ showForm' = FALSE
  /\ editItem' = 0
  /\ form' = EmptyForm
  /\ crudEvent' = FormEvent("form", {}, FALSE)
  /\ UNCHANGED <<selectedDepartment, managers, managerRequests, saveRequests>>
  /\ UNCHANGED listVars
  /\ UNCHANGED <<mastersVars, nonCrudVars>>

\* fetchManagers is answered: then sets the managers, catch empties them
ManagersAnswered(ok) ==
  /\ managerRequests > 0
  /\ managerRequests' = managerRequests - 1
  /\ managers' = IF ok THEN ManagerIds ELSE {}
  /\ crudEvent' = FormEvent("answered", {}, ~ok)
  /\ UNCHANGED <<showForm, editItem, form, selectedDepartment, saveRequests>>
  /\ UNCHANGED <<listVars, mastersVars, nonCrudVars>>

\* the check of saveItem before any request: a project needs a department
SaveRefused(data) == crudPage = "PROJECT" /\ data.department_id = 0

\* The request saveItem sends: MasterAPI.update for the item edited, else
\* MasterAPI.create; list is the loadItems of the render that made saveItem.
SaveReq(data) ==
  [method |-> IF editItem # 0 THEN "PATCH" ELSE "POST",
   id     |-> editItem,
   data   |-> data,
   list   |-> ListReq(statusFilter, currentPage, pageSize, sortOrder,
                      IF editItem # 0 THEN "updated" ELSE "created")]

\* The Save button of AddNewModal: saveItem(form) up to its first await.
SaveItem ==
  /\ FormUsableCrud
  /\ IF SaveRefused(form)
     THEN /\ alert' = Alert("danger", MsgDepartmentRequired)
          /\ saveRequests' = saveRequests
          /\ crudEvent' = FormEvent("saveItem", {}, FALSE)
     ELSE /\ alert' = alert
          /\ saveRequests' = saveRequests \cup {SaveReq(form)}
          /\ crudEvent' = FormEvent("saveItem", {SaveReq(form)}, FALSE)
  /\ UNCHANGED <<crudPage, backendRows, statusFilter, sortOrder, pageSize,
                 currentPage, totalPages, totalRecords, items, crudLoading,
                 listRequests>>
  /\ UNCHANGED <<showForm, editItem, form, selectedDepartment, managers,
                 managerRequests>>
  /\ UNCHANGED <<mastersVars, nonCrudVars>>

\* The project the backend holds: its manager has since moved to another
\* department.
ProjectRows == <<Row(1, "Active", 1, {MaxItems})>>

\* the backend accepts one project more than it holds at the start
MaxProjects == Len(ProjectRows) + 1

\* what the backend holds after a save it has accepted
Saved(rows, req) ==
  IF req.method = "POST"
  THEN Append(rows, Row(Len(rows) + 1, "Active", req.data.department_id,
                        req.data.managers))
  ELSE [rows EXCEPT ![req.id].department_name = req.data.department_id,
                    ![req.id].managers = req.data.managers]

\* The save is accepted: reloadMasters(true), then loadItems(), which
\* saveItem awaits.
SaveResolved(req) ==
  /\ req \in saveRequests
  /\ req.method = "POST" => Len(backendRows) < MaxProjects
  /\ saveRequests' = saveRequests \ {req}
  /\ backendRows' = Saved(backendRows, req)
  /\ LoadMastersCall(TRUE)
  /\ listRequests' = listRequests \cup {req.list}
  /\ crudLoading' = TRUE
  /\ crudEvent' = FormEvent("answered", {req.list}, FALSE)
  /\ UNCHANGED <<crudPage, statusFilter, sortOrder, pageSize, currentPage,
                 totalPages, totalRecords, items, alert>>
  /\ UNCHANGED <<showForm, editItem, form, selectedDepartment, managers,
                 managerRequests>>
  /\ UNCHANGED nonCrudVars

\* The save is refused or fails: the catch block of saveItem sets the alert.
SaveRejected(req) ==
  /\ req \in saveRequests
  /\ saveRequests' = saveRequests \ {req}
  /\ alert' = Alert("danger", MsgFailedToSave)
  /\ crudEvent' = FormEvent("answered", {}, TRUE)
  /\ UNCHANGED <<crudPage, backendRows, statusFilter, sortOrder, pageSize,
                 currentPage, totalPages, totalRecords, items, crudLoading,
                 listRequests>>
  /\ UNCHANGED <<showForm, editItem, form, selectedDepartment, managers,
                 managerRequests>>
  /\ UNCHANGED <<mastersVars, nonCrudVars>>

\* the answers of the provider with every department active, or with none
DepartmentResponses ==
  {r \in MastersResponses :
     r["MEASUREMENT"] = {} /\ r["DEPARTMENT"] \in {{}, 1..MaxItems}}

\* ProjectsPage, opened after the provider has loaded the masters: the
\* effects have called loadItems and fetchManagers.
InitProjects ==
  /\ InitSignedIn("/masters/projects", AdminSessions)
  /\ InitMastersLoaded
  /\ InitPMClosed
  /\ InitRestClosed
  /\ CrudMountedWith("PROJECT", ProjectRows)
  /\ managers = {}
  /\ managerRequests = 1

NextProjects ==
  \/ \E req \in listRequests : \E ok \in BOOLEAN : ListAnswered(req, ok)
  \/ CloseAlert
  \/ OnAddNew
  \/ \E i \in 1..MaxProjects : i <= Len(items) /\ EditItemHandler(items[i])
  \/ \E key \in SelectKeys, value \in 0..MaxItems : SelectChange(key, value)
  \/ CancelForm
  \/ \E ok \in BOOLEAN : ManagersAnswered(ok)
  \/ SaveItem
  \/ \E req \in saveRequests : SaveResolved(req)
  \/ \E req \in saveRequests : SaveRejected(req)
  \/ \E data \in DepartmentResponses : MastersResolved(data)
  \/ MastersRejected

SpecProjects == InitProjects /\ [][NextProjects]_vars

\* ------------------------------------------------------------------------
\* GenericCRUDPage: the status action of a row, ConfirmDeleteModal and
\* DeactivateDepartmentModal (part_001, part_008)
\* ------------------------------------------------------------------------
Target(row) == [id |-> row.id, status |-> row.status]

\* deleteItem without the branch for departments
deleteItem_NoDepartment(masterType, row) ==
  [dept |-> NoTarget, generic |-> Target(row)]

\* deleteItem: the state it sets for a row, the other one staying null
deleteItem(masterType, row) ==
  IF masterType = "DEPARTMENT" /\ row.status = "Active"
  THEN [dept |-> Target(row), generic |-> NoTarget]
  ELSE [dept |-> NoTarget, generic |-> Target(row)]

\* what the reasons typed into the textarea are
Reasons == {EmptyStr, <<"x">>}

\* The disabled attribute of the Deactivate button,
\* !reason || loading || previewLoading || !confirmed, evaluated from the
\* left: the identifier confirmed is declared nowhere in the module, so the
\* render throws a ReferenceError once the first three operands are false.
DeactivateButton(r, loading, previewing) ==
  IF ~Truthy(r) \/ loading \/ previewing THEN "disabled" ELSE "throws"

\* the render of the page with the dialog in the state given
DialogRender(r, loading, previewing) ==
  LET thrown == DeactivateButton(r, loading, previewing) = "throws"
  IN /\ renderError' = thrown
     /\ crudPage' = IF thrown THEN "none" ELSE crudPage

\* the dialog is shown and takes input
DialogUsable ==
  crudPage # "none" /\ deptDeactivateTarget # NoTarget /\ ~renderError

\* The status button of a row. For an active department the dialog mounts
\* with an empty reason and its effect asks for the impact summary.
DeleteItem(row) ==
  LET t == deleteItem(crudPage, row)
  IN /\ TableUsable
     /\ deleteTarget' = t.generic
     /\ deptDeactivateTarget' = t.dept
     /\ reason' = EmptyStr
     /\ preview' = "null"
     /\ previewLoading' = (t.dept # NoTarget)
     /\ DialogRender(EmptyStr, deptDeactivateLoading, t.dept # NoTarget)
     /\ crudEvent' = FormEvent("deleteItem", {}, FALSE)
     /\ UNCHANGED <<deleteLoading, deptDeactivateLoading, statusRequests,
                    deactivateRequests>>
     /\ UNCHANGED <<backendRows, statusFilter, sortOrder, pageSize, currentPage,
                    totalPages, totalRecords, items, crudLoading, alert,
                    listRequests>>
     /\ UNCHANGED <<crudFormVars, mastersVars, nonDeleteVars>>

\* Cancel and the close button of ConfirmDeleteModal
CancelDelete ==
  /\ crudPage # "none" /\ deleteTarget # NoTarget /\ ~deleteLoading
  /\ deleteTarget' = NoTarget
  /\ crudEvent' = FormEvent("cancelDelete", {}, FALSE)
  /\ UNCHANGED <<deleteLoading, deptDeactivateTarget, deptDeactivateLoading,
                 reason, preview, previewLoading, statusRequests,
                 deactivateRequests, renderError>>
  /\ UNCHANGED <<listVars, crudFormVars, mastersVars, nonDeleteVars>>

\* the request confirmDelete sends for the target
StatusReq(target) ==
  [id |-> target.id,
   status |-> IF target.status = "Active" THEN "Inactive" ELSE "Active"]

\* confirmDelete up to its first await
ConfirmDelete ==
  /\ crudPage # "none" /\ deleteTarget # NoTarget /\ ~deleteLoading
  /\ deleteLoading' = TRUE
  /\ statusRequests' = statusRequests \cup {StatusReq(deleteTarget)}
  /\ crudEvent' = FormEvent("confirmDelete", {StatusReq(deleteTarget)}, FALSE)
  /\ UNCHANGED <<deleteTarget, deptDeactivateTarget, deptDeactivateLoading,
                 reason, preview, previewLoading, deactivateRequests,
                 renderError>>
  /\ UNCHANGED <<listVars, crudFormVars, mastersVars, nonDeleteVars>>

\* PATCH /masters/<id>/ with a status
StatusSet(rows, req) == [rows EXCEPT ![req.id].status = req.status]

\* The status update is accepted: reloadMasters(true), then loadItems(),
\* which confirmDelete awaits.
StatusResolved(req) ==
  LET list == ListReq(statusFilter, currentPage, pageSize, sortOrder,
                      IF req.status = "Inactive" THEN "deactivated" ELSE "activated")
  IN /\ req \in statusRequests
     /\ statusRequests' = statusRequests \ {req}
     /\ backendRows' = StatusSet(backendRows, req)
     /\ LoadMastersCall(TRUE)
     /\ listRequests' = listRequests \cup {list}
     /\ crudLoading' = TRUE
     /\ crudEvent' = FormEvent("answered", {list}, FALSE)
     /\ UNCHANGED <<crudPage, statusFilter, sortOrder, pageSize, currentPage,
                    totalPages, totalRecords, items, alert>>
     /\ UNCHANGED <<deleteTarget, deleteLoading, deptDeactivateTarget,
                    deptDeactivateLoading, reason, preview, previewLoading,
                    deactivateRequests, renderError>>
     /\ UNCHANGED <<crudFormVars, nonDeleteVars>>

MsgStatusChanged(then) == <<crudPage, then, "successfully">>
MsgFailedStatus == <<"Failed to update", crudPage, "status">>

\* The status update fails: the catch block of confirmDelete sets the
\* alert, finally closes the modal.
StatusRejected(req) ==
  /\ req \in statusRequests
  /\ statusRequests' = statusRequests \ {req}
  /\ alert' = Alert("danger", MsgFailedStatus)
  /\ deleteLoading' = FALSE
  /\ deleteTarget' = NoTarget
  /\ crudEvent' = FormEvent("answered", {}, TRUE)
  /\ UNCHANGED <<crudPage, backendRows, statusFilter, sortOrder, pageSize,
                 currentPage, totalPages, totalRecords, items, crudLoading,
                 listRequests>>
  /\ UNCHANGED <<deptDeactivateTarget, deptDeactivateLoading, reason, preview,
                 previewLoading, deactivateRequests, renderError>>
  /\ UNCHANGED <<crudFormVars, mastersVars, nonDeleteVars>>

\* The loadItems call that confirmDelete awaits is answered: loadItems sets
\* the items or its alert, then confirmDelete reports success and closes
\* the modal.
StatusListAnswered(req, ok) ==
  LET res == ListAnswer(backendRows, req)
  IN /\ req \in listRequests
     /\ req.then \in {"deactivated", "activated"}
     /\ listRequests' = listRequests \ {req}
     /\ items' = IF ok THEN res.results ELSE items
     /\ totalPages' = IF ok THEN res.totalPages ELSE totalPages
     /\ totalRecords' = IF ok THEN res.count ELSE totalRecords
     /\ crudLoading' = FALSE
     /\ alert' = Alert("success", MsgStatusChanged(req.then))
     /\ deleteLoading' = FALSE
     /\ deleteTarget' = NoTarget
     /\ crudEvent' = FormEvent("answered", {}, ~ok)
     /\ UNCHANGED <<crudPage, backendRows, statusFilter, sortOrder, pageSize,
                    currentPage>>
     /\ UNCHANGED <<deptDeactivateTarget, deptDeactivateLoading, reason, preview,
                    previewLoading, statusRequests, deactivateRequests,
                    renderError>>
     /\ UNCHANGED <<crudFormVars, mastersVars, nonDeleteVars>>

\* the textarea of the dialog
SetReason(value) ==
  /\ DialogUsable
  /\ value # reason
  /\ reason' = value
  /\ DialogRender(value, deptDeactivateLoading, previewLoading)
  /\ crudEvent' = FormEvent("setReason", {}, FALSE)
  /\ UNCHANGED <<deleteTarget, deleteLoading, deptDeactivateTarget,
                 deptDeactivateLoading, preview, previewLoading, statusRequests,
                 deactivateRequests>>
  /\ UNCHANGED <<backendRows, statusFilter, sortOrder, pageSize, currentPage,
                 totalPages, totalRecords, items, crudLoading, alert,
                 listRequests>>
  /\ UNCHANGED <<crudFormVars, mastersVars, nonDeleteVars>>

\* previewDepartmentDeactivation is answered: then or catch sets preview,
\* finally clears previewLoading.
PreviewAnswered(ok) ==
  /\ DialogUsable
  /\ previewLoading
  /\ preview' = IF ok THEN "summary" ELSE "null"
  /\ previewLoading' = FALSE
  /\ DialogRender(reason, deptDeactivateLoading, FALSE)
  /\ crudEvent' = FormEvent("answered", {}, ~ok)
  /\ UNCHANGED <<deleteTarget, deleteLoading, deptDeactivateTarget,
                 deptDeactivateLoading, reason, statusRequests,
                 deactivateRequests>>
  /\ UNCHANGED <<backendRows, statusFilter, sortOrder, pageSize, currentPage,
                 totalPages, totalRecords, items, crudLoading, alert,
                 listRequests>>
  /\ UNCHANGED <<crudFormVars, mastersVars, nonDeleteVars>>

\* Cancel and the close button of the dialog. The dialog unmounts; the
\* answer to a preview request of an unmounted dialog sets no state.
CancelDeactivation ==
  /\ DialogUsable
  /\ deptDeactivateTarget' = NoTarget
  /\ reason' = EmptyStr
  /\ preview' = "null"
  /\ previewLoading' = FALSE
  /\ crudEvent' = FormEvent("cancelDelete", {}, FALSE)
  /\ UNCHANGED <<deleteTarget, deleteLoading, deptDeactivateLoading,
                 statusRequests, deactivateRequests, renderError>>
  /\ UNCHANGED <<listVars, crudFormVars, mastersVars, nonDeleteVars>>

\* the request confirmDepartmentDeactivation sends
DeactivateReq(target, r) == [departmentId |-> target.id, reason |-> r]

\* The Deactivate button, onConfirm(reason), up to the await of
\* confirmDepartmentDeactivation. The button takes the click only when it
\* has rendered and is not disabled.
ConfirmDepartmentDeactivation ==
  /\ DialogUsable
  /\ DeactivateButton(reason, deptDeactivateLoading, previewLoading) = "enabled"
  /\ deptDeactivateLoading' = TRUE
  /\ deactivateRequests' =
       deactivateRequests \cup {DeactivateReq(deptDeactivateTarget, reason)}
  /\ crudEvent' = FormEvent("confirmDepartmentDeactivation",
                            {DeactivateReq(deptDeactivateTarget, reason)}, FALSE)
  /\ UNCHANGED <<deleteTarget, deleteLoading, deptDeactivateTarget, reason,
                 preview, previewLoading, statusRequests, renderError>>
  /\ UNCHANGED <<listVars, crudFormVars, mastersVars, nonDeleteVars>>

\* the rows of a master page: an active and an inactive one
StatusRows == <<Row(1, "Active", 0, {}), Row(2, "Inactive", 0, {})>>
StatusPages == {"DEPARTMENT", "ROLE"}

\* DepartmentsPage or RolesPage, opened by an administrator
InitStatus ==
  /\ InitSignedIn("/masters/departments", AdminSessions)
  /\ InitMastersLoaded
  /\ InitPMClosed
  /\ InitWeekClosed
  /\ InitDeleteClosed
  /\ InitProfileClosed
  /\ \E type \in StatusPages : CrudMountedWith(type, StatusRows)
  /\ managers = {}
  /\ managerRequests = 0

\* The Deactivate button of the dialog never takes a click (DeactivateButton
\* is never "enabled"), so ConfirmDepartmentDeactivation is no step here.
NextStatus ==
  \/ \E value \in StatusFilters : SetStatusFilter(value)
  \/ OnToggleSort
  \/ \E req \in listRequests : \E ok \in BOOLEAN : ListAnswered(req, ok)
  \/ CloseAlert
  \/ \E i \in 1..Len(StatusRows) : i <= Len(items) /\ DeleteItem(items[i])
  \/ CancelDelete
  \/ ConfirmDelete
  \/ \E req \in statusRequests : StatusResolved(req)
  \/ \E req \in statusRequests : StatusRejected(req)
  \/ \E req \in listRequests : \E ok \in BOOLEAN : StatusListAnswered(req, ok)
  \/ \E value \in Reasons : SetReason(value)
  \/ \E ok \in BOOLEAN : PreviewAnswered(ok)
  \/ CancelDeactivation
  \/ \E data \in DepartmentResponses : MastersResolved(data)
  \/ MastersRejected

SpecStatus == InitStatus /\ [][NextStatus]_vars

\* ------------------------------------------------------------------------
\* Profile (part_006)
\* ------------------------------------------------------------------------
maxSize == 2 * 1024 * 1024
allowedTypes == {"image/jpeg", "image/jpg", "image/png", "image/webp"}

MsgFileSize == "File size must be less than 2MB"
MsgFileType == "Only JPG, PNG, and WEBP formats are allowed"

validateProfilePicture_TypeFirst(file) ==
  IF file.type \notin allowedTypes THEN [valid |-> FALSE, error |-> MsgFileType]
  ELSE IF file.size > maxSize THEN [valid |-> FALSE, error |-> MsgFileSize]
  ELSE [valid |-> TRUE, error |-> ""]

validateProfilePicture(file) ==
  IF file.size > maxSize THEN [valid |-> FALSE, error |-> MsgFileSize]
  ELSE IF file.type \notin allowedTypes THEN [valid |-> FALSE, error |-> MsgFileType]
  ELSE [valid |-> TRUE, error |-> ""]

\* the files the user picks: sizes around the limit, types in and out of
\* the list
FileSizes == {1, maxSize - 1, maxSize, maxSize + 1, 2 * maxSize}
FileTypes == allowedTypes \cup {"image/gif", "application/pdf", ""}
Files == [size : FileSizes, type : FileTypes]

\* a file that passes the validation
PickedFile == [size |-> 1, type |-> "image/png"]

\* toggleEditSection that takes the backup on every call
toggleEditSection_Rebackup(editing, original, data, section) ==
  [editing  |-> [editing EXCEPT ![section] = TRUE],
   original |-> [original EXCEPT ![section] = data[section]]]

\* toggleEditSection: the edit flags and the backup it leaves
toggleEditSection(editing, original, data, section) ==
  IF editing[section] THEN [editing |-> editing, original |-> original]
  ELSE [editing  |-> [editing EXCEPT ![section] = TRUE],
        original |-> [original EXCEPT ![section] = data[section]]]

\* The Edit button of a section (disabled while the section is edited) or
\* any other call of toggleEditSection.
ToggleEditSection(section) ==
  LET t == toggleEditSection(editingSections, originalData, formData, section)
  IN /\ editingSections' = t.editing
     /\ originalData' = t.original
     /\ enteredData' = IF editingSections[section] THEN enteredData
                       ELSE [enteredData EXCEPT ![section] = formData[section]]
     /\ profileEvent' = ProfileEvent("toggleEditSection", section)
     /\ UNCHANGED <<formData, saving, profileSaves, profilePicture, pictureCheck>>
     /\ UNCHANGED nonProfileVars

\* an input of a section in edit mode
HandleFieldChange(section, field, value) ==
  /\ editingSections[section]
  /\ field \in InputsOf(section)
  /\ formData[section][field] # value
  /\ formData' = [formData EXCEPT ![section][field] = value]
  /\ profileEvent' = ProfileEvent("handleFieldChange", "none")
  /\ UNCHANGED <<editingSections, originalData, saving, profileSaves,
                 profilePicture, pictureCheck, enteredData>>
  /\ UNCHANGED nonProfileVars

\* the Cancel button of a section
CancelSection(section) ==
  /\ editingSections[section]
  /\ formData' = [formData EXCEPT ![section] = originalData[section]]
  /\ editingSections' = [editingSections EXCEPT ![section] = FALSE]
  /\ enteredData' = [enteredData EXCEPT ![section] = NoData(section)]
  /\ profileEvent' = ProfileEvent("cancel", section)
  /\ UNCHANGED <<originalData, saving, profileSaves, profilePicture,
                 pictureCheck>>
  /\ UNCHANGED nonProfileVars

\* handleSave up to its await, from the Save button of a section in edit
\* mode or from Save Photo, shown while a picture is chosen; the buttons are
\* disabled while saving
HandleSave(section) ==
  /\ \/ editingSections[section]
     \/ section = "personal" /\ profilePicture # NoFile
  /\ ~saving
  /\ saving' = TRUE
  /\ profileSaves' = profileSaves \cup {section}
  /\ profileEvent' = ProfileEvent("handleSave", "none")
  /\ UNCHANGED <<editingSections, formData, originalData, profilePicture,
                 pictureCheck, enteredData>>
  /\ UNCHANGED nonProfileVars

\* The PATCH is answered. url is the profile_picture_url of the response,
\* 0 when it has none; a url is stored in the personal data of the form.
ProfileSaveAnswered(section, ok, url) ==
  /\ section \in profileSaves
  /\ profileSaves' = profileSaves \ {section}
  /\ saving' = FALSE
  /\ formData' = IF ok /\ url # 0
                  THEN [formData EXCEPT !["personal"]["profile_picture_url"] = url]
                  ELSE formData
  /\ editingSections' = IF ok THEN [editingSections EXCEPT ![section] = FALSE]
                         ELSE editingSections
  /\ profilePicture' = IF ok THEN NoFile ELSE profilePicture
  /\ enteredData' = IF ok THEN [enteredData EXCEPT ![section] = NoData(section)]
                    ELSE enteredData
  /\ profileEvent' = ProfileEvent("answered", "none")
  /\ UNCHANGED <<originalData, pictureCheck>>
  /\ UNCHANGED nonProfileVars

\* handleProfilePictureChange: the file is validated; a valid file becomes
\* the picture once the browser has loaded it as an image.
HandleProfilePictureChange(file, loaded) ==
  /\ pictureCheck' = validateProfilePicture(file)
  /\ profilePicture' = IF validateProfilePicture(file).valid /\ loaded
                        THEN file ELSE profilePicture
  /\ profileEvent' = [ProfileEvent("handleProfilePictureChange", "none")
                        EXCEPT !.file = file]
  /\ UNCHANGED <<editingSections, formData, originalData, saving, profileSaves,
                 enteredData>>
  /\ UNCHANGED nonProfileVars

\* handleCancelProfilePicture
HandleCancelProfilePicture ==
  /\ profilePicture # NoFile
  /\ profilePicture' = NoFile
  /\ profileEvent' = ProfileEvent("handleCancelProfilePicture", "none")
  /\ UNCHANGED <<editingSections, formData, originalData, saving, profileSaves,
                 pictureCheck, enteredData>>
  /\ UNCHANGED nonProfileVars

\* the profile page of a signed-in user, every field of the props 0, with
\* or without a picture chosen; the saves bring the other values
InitProfile ==
  /\ InitSignedIn("/profile", AdminSessions)
  /\ InitMastersLoaded
  /\ InitPMClosed
  /\ InitCrudClosed
  /\ InitWeekClosed
  /\ InitDeleteClosed
  /\ \E file \in {NoFile, PickedFile} :
       ProfileOpenWith([x \in Sections |-> NoData(x)], file)

NextProfile ==
  \/ \E x \in Sections : ToggleEditSection(x)
  \/ \E x \in Sections : \E f \in InputsOf(x) : \E v \in Values :
       HandleFieldChange(x, f, v)
  \/ \E x \in Sections : CancelSection(x)
  \/ \E x \in Sections : HandleSave(x)
  \/ \E x \in Sections : \E ok \in BOOLEAN : \E url \in PictureUrls :
       ProfileSaveAnswered(x, ok, url)

SpecProfile == InitProfile /\ [][NextProfile]_vars

\* the picture input of the profile page: files are chosen, validated and
\* removed again
InitPicture ==
  /\ InitSignedIn("/profile", PageSessions)
  /\ InitMastersLoaded
  /\ InitPMClosed
  /\ InitCrudClosed
  /\ InitRestClosed

NextPicture ==
  \/ \E file \in Files : \E loaded \in BOOLEAN :
       HandleProfilePictureChange(file, loaded)
  \/ HandleCancelProfilePicture

SpecPicture == InitPicture /\ [][NextPicture]_vars

\* The pages whose requests can fail: the evaluation form opened while the
\* provider loads the masters, or the projects page.
InitRetry == InitPMEdit \/ InitProjects

NextRetry == NextPMEdit \/ NextProjects

SpecRetry == InitRetry /\ [][NextRetry]_vars

\* ------------------------------------------------------------------------
\* Week strings: formatWeekValue and parseWeek on their own (part_000)
\* ------------------------------------------------------------------------
\* the week numbers and the years given to formatWeekValue
MaxWeek == 53
MaxYear == 2026
Years == {0, 1, 9, 10, 99, 100, 999, 1000} \cup ((MaxYear - 2)..MaxYear)
WeekArgs == [year : Years, week : 1..MaxWeek]

\* week strings that formatWeekValue did not produce
RawWeekValues ==
  {Null, EmptyStr, <<" ">>, <<"2","0","2","5">>, <<"W","0","1">>,
   <<"2","0","2","5","-","0","1">>, <<"2","0","2","5","W","0","1">>,
   <<"2","0","2","5","-","w","0","1">>, <<"2","0","2","5","_","W","0","1">>,
   S_dashW, <<"2","0","2","5","-","W">>, <<"-","W","0","1">>, S_W01,
   <<"2","0","2","5","-","W","1">>}

FormatWeek ==
  /\ weekArgs # NoArgs
  /\ weekText' = formatWeekValue(weekArgs.year, weekArgs.week)
  /\ weekParsed' = Unparsed
  /\ UNCHANGED <<weekArgs, authVars, mastersVars, pmVars, crudVars, deleteVars,
                 profileVars>>

ParseWeek ==
  /\ weekParsed = Unparsed
  /\ weekParsed' = parseWeek(weekText)
  /\ UNCHANGED <<weekArgs, weekText, authVars, mastersVars, pmVars, crudVars,
                 deleteVars, profileVars>>

\* a year and a week to format, or a week string to parse as it is
InitWeeks ==
  /\ InitAuth /\ InitMasters /\ InitPMClosed /\ InitCrudClosed
  /\ InitDeleteClosed /\ InitProfileClosed
  /\ \/ weekArgs \in WeekArgs /\ weekText = Null
     \/ weekArgs = NoArgs /\ weekText \in RawWeekValues
  /\ weekParsed = Unparsed

NextWeeks == FormatWeek \/ ParseWeek

SpecWeeks == InitWeeks /\ [][NextWeeks]_vars

\* The application as it starts: every component in its first state.
Init ==
  InitAuth /\ InitMasters /\ InitPMClosed /\ InitCrudClosed /\ InitRestClosed

SpecAuth == Init /\ [][NextAuth]_vars

SpecMasters == Init /\ [][NextMasters]_vars

\* C8: once a load has succeeded, a call of loadMasters or reloadMasters
\* without force issues no request and leaves masters, the ref and the
\* in-flight loads as they were; a call with force = true issues the
\* requests for all four types, before and after the first success.
C8_LoadOnce ==
  [][mastersEvent'.op = "loadMasters" =>
       /\ (loadedOnceRef /\ ~mastersEvent'.force)
            => /\ mastersEvent'.requests = {}
               /\ masters' = masters
               /\ mastersInFlight' = mastersInFlight
       /\ mastersEvent'.force
            => /\ mastersEvent'.requests = {"ROLE", "DEPARTMENT", "PROJECT", "MEASUREMENT"}
               /\ mastersInFlight' = mastersInFlight + 1
    ]_vars

\* C8 witness: after a successful load a call without force was skipped.
C8_Witness ==
  /\ loadedOnceRef
  /\ mastersEvent.op = "loadMasters"
  /\ ~mastersEvent.force
  /\ mastersEvent.requests = {}
  /\ masters["MEASUREMENT"] # {}

\* ------------------------------------------------------------------------
\* Properties of the route guard, the sidebar and the lifecycle route
\* ------------------------------------------------------------------------
\* The token of the current state is a JWT whose exp, in milliseconds, is
\* later than the current time.
TokenLive ==
  /\ localStorage["access_token"].kind = "exp"
  /\ localStorage["access_token"].exp * 1000 > clock * 1000
\* The stored role, lower-cased and trimmed, is admin, manager or employee.
RoleAllowed ==
  /\ localStorage["role"] # Null
  /\ trim(toLowerCase(localStorage["role"])) \in {S_admin, S_manager, S_employee}
\* No role is stored, or only white space.
RoleMissing ==
  localStorage["role"] = Null \/ trim(localStorage["role"]) = EmptyStr

\* C1: whenever ProtectedRoute is evaluated, it renders the protected layout
\* exactly when the stored access_token is a JWT with exp*1000 later than
\* now and the stored role, lower-cased and trimmed, is admin, manager or
\* employee; in every other case the location becomes /login and the layout
\* is not mounted; it clears localStorage exactly when the token is valid
\* and the role is missing, and otherwise leaves localStorage alone. The
\* layout is mounted only by a step in which ProtectedRoute rendered it.
C1_ProtectedRoute ==
  /\ [][authEvent'.guard # "none" =>
       /\ (authEvent'.guard = "children") <=> (TokenLive /\ RoleAllowed)
       /\ (authEvent'.guard # "children") => (location' = "/login" /\ ~layoutMounted')
       /\ (authEvent'.guard = "clear") <=> (TokenLive /\ RoleMissing)
       /\ (authEvent'.guard = "clear") => (localStorage' = ClearedStorage)
       /\ (authEvent'.guard # "clear" /\ authEvent'.op # "mount")
            => (localStorage' = localStorage)
    ]_vars
  /\ [][(layoutMounted' /\ ~layoutMounted) => authEvent'.guard = "children"]_vars

\* C1 witness: the layout was rendered for the stored role "Admin ", which
\* needs both the lower-casing and the trimming.
C1_Witness ==
  /\ authEvent.guard = "children"
  /\ layoutMounted
  /\ localStorage["role"] = S_AdminSp

\* The menu of the role currently stored, as the claim states it.
MenuOfStoredRole ==
  LET r == IF localStorage["role"] = Null THEN EmptyStr
           ELSE toLowerCase(localStorage["role"])
  IN IF r \in {S_admin, S_manager} THEN "adminMenu"
     ELSE IF r = S_employee THEN "employeeMenu"
     ELSE "loginMenu"

\* C9 as stated: while the sidebar is mounted, the menu shown is always the
\* menu of the role currently stored in localStorage.
C9_AlwaysInSync == layoutMounted => navigation = MenuOfStoredRole

\* C9 amended: while the sidebar is mounted, the menu shown is the menu of
\* the stored role whenever no storage event from another tab is still
\* undelivered and no logout of this tab is waiting for its redirect.
C9_InSyncWhenQuiet ==
  (layoutMounted /\ storageEvents = 0 /\ pendingNav = "none")
    => navigation = MenuOfStoredRole

\* C9 witness: a storage event from another tab has just been handled by
\* the mounted sidebar, which now shows the employee menu.
C9_Witness ==
  /\ layoutMounted
  /\ storageEvents = 0
  /\ pendingNav = "none"
  /\ authEvent.op = "storage"
  /\ navigation = "employeeMenu"

\* The step evaluated the element of the lifecycle-history route: the path
\* was rendered and ProtectedRoute did not redirect before it.
HistoryElementEvaluated ==
  /\ \E i \in DOMAIN authEvent'.trail : authEvent'.trail[i] = HistoryPath
  /\ authEvent'.guard \notin {"redirect", "clear"}

StoredRoleIsAdmin ==
  localStorage["role"] # Null /\ toLowerCase(localStorage["role"]) = S_admin

ScoreEntered(s) == s \notin {EmptyStr, Undefined, Hole}

\* a score that is a number between 0 and 100
ScoreInRange(s) ==
  LET x == NumberOfScore(s)
  IN ~IsNaN(x) /\ ~NumLess(x, 0) /\ ~NumGreater(x, MaxScore)

\* what has to hold of the form when a request is sent
SubmitConditions ==
  /\ employeeId # EmptyStr
  /\ Truthy(employeeName)
  /\ Len(scores) = measurementsLength
  /\ \A i \in 1..Len(scores) : ScoreEntered(scores[i])
  /\ \A i \in 1..Len(scores) : ScoreInRange(scores[i])
  /\ getUserRole(localStorage) \in {S_admin, S_manager}
  /\ selectedWeek # EmptyStr

\* C2: a POST or PUT of an evaluation is sent only by handleSubmit and only
\* when, at submit time, the employee id is not empty, an employee name is
\* loaded, there is one non-empty score per active measurement, every score
\* is a number in 0..100, the role is admin or manager and a week is
\* selected; when one of these fails, handleSubmit opens the validation
\* modal and issues no request.
C2_SubmitChecked ==
  [][/\ \A r \in pmRequests' \ pmRequests :
          r.kind = "submit" => pmEvent'.op = "handleSubmit" /\ r \in pmEvent'.sent
     /\ pmEvent'.op = "handleSubmit" =>
          IF SubmitConditions
          THEN pmEvent'.sent # {}
          ELSE /\ validationModal'.show
               /\ pmEvent'.sent = {}
               /\ pmRequests' = pmRequests
    ]_vars

\* an input that handleScoreChange has to refuse: not a number, negative,
\* or greater than 100
ScoreRefused(value) ==
  LET x == NumberOf(value)
  IN IsNaN(x) \/ NumLess(x, 0) \/ NumGreater(x, MaxScore)

\* C3: starting from all-empty scores, after any sequence of calls of
\* handleScoreChange every score is "" or a string whose number lies in
\* 0..100; a call with an input that is not a number, is negative or is
\* greater than 100 leaves scores as they were and opens the validation modal.
C3_ScoresStayValid ==
  /\ [](\A i \in 1..Len(scores) : scores[i] = EmptyStr \/
          (ScoreEntered(scores[i]) /\ ScoreInRange(scores[i])))
  /\ [][\A i \in 1..MaxItems, v \in ScoreInputs :
          (HandleScoreChange(i, v) /\ ScoreRefused(v))
             => (scores' = scores /\ validationModal'.show)
      ]_vars

\* C3 witness: a number with leading zeros was stored stripped, and the
\* last call refused an input above 100.
C3_Witness ==
  /\ pmEvent.op = "handleScoreChange"
  /\ validationModal = Modal(MsgExceeds)
  /\ \E i \in 1..Len(scores) : scores[i] = <<"7">>
  /\ \E i \in 1..Len(scores) : scores[i] = <<"1","0","0">>

\* C4: a step that handles the failure of a backend request (of the form,
\* or of the master-data load) ends with a message shown to the user.
C4_FailureShown ==
  (pmEvent.failed # "none" \/ mastersEvent.op = "rejected") => validationModal.show
\* ------------------------------------------------------------------------
\* Properties of the master pages
\* ------------------------------------------------------------------------
\* the setters in the dependencies of the effect that resets the page
FilterSetters == {"setStatusFilter", "setPageSize", "onToggleSort"}

\* page 1 of the list for the filter, page size and sort order now selected
FirstPageOfSelection ==
  ListAnswer(backendRows,
             ListReq(statusFilter, 1, pageSize, sortOrder, "none")).results

\* C6: after the status filter, the page size or the sort order has changed,
\* currentPage is 1 and, once every list request has been answered (none of
\* them with a failure), the items are page 1 of the list for the filter,
\* page size and sort order selected, whatever the order of the answers.
C6_FirstPageAfterFilterChange ==
  crudEvent.last \in FilterSetters =>
    /\ currentPage = 1
    /\ (listRequests = {} /\ crudEvent.clean) => items = FirstPageOfSelection

\* the manager options of the project form after the step
ManagerOptionsNext ==
  filteredManagers(selectedDepartment', managers', masters'["DEPARTMENT"])

\* a save request of a project carries a department, and managers of that
\* department when they were chosen in the form
SaveOfDepartment(req) ==
  /\ req.data.department_id # 0
  /\ req.data.picked =>
       \A m \in req.data.managers : ManagerDept(m) = req.data.department_id

\* C7 as stated: whenever the department select of the project form changes,
\* the managers of the form are emptied in the same update and every manager
\* option left is a manager of the value selected; every project save sent
\* has a department, and its managers chosen in the form are of it.
C7_CascadeAlways ==
  /\ [][\A value \in 0..MaxItems :
          SelectChange("department_id", value) =>
            /\ form'.managers = {}
            /\ \A m \in ManagerOptionsNext : ManagerDept(m) = value]_vars
  /\ [](\A req \in saveRequests : SaveOfDepartment(req))

\* C7, amended: whenever the department select of the project form changes,
\* the managers of the form are emptied in the same update; when the value
\* selected is a department, every manager option left is a manager of that
\* department, and when it is the placeholder the options are all the
\* managers fetched; every project save sent has a department, and its
\* managers chosen in the form are of that department.
C7_Cascade ==
  /\ [][\A value \in 0..MaxItems :
          SelectChange("department_id", value) =>
            /\ form'.managers = {}
            /\ form'.department_id = value
            /\ IF value # 0
               THEN \A m \in ManagerOptionsNext : ManagerDept(m) = value
               ELSE ManagerOptionsNext = managers]_vars
  /\ [](\A req \in saveRequests : SaveOfDepartment(req))

\* a project is being created with a manager chosen after its department
C7_Witness ==
  \E req \in saveRequests :
    /\ req.method = "POST"
    /\ req.data.picked
    /\ req.data.managers # {}
    /\ selectedDepartment = req.data.department_id

\* the steps that handle a failed request of the provider, of the evaluation
\* form and of a master page
ProviderFailure == MastersRejected

FormFailure ==
  \/ LatestWeekRejected
  \/ \E req \in pmRequests : \E o \in SubmitOutcomes \ {"success"} :
       SubmitAnswered(req, o)
  \/ \E req \in pmRequests : EvaluationAnswered(req, FALSE, [found |-> FALSE])

MasterPageFailure ==
  \/ \E req \in listRequests : ListAnswered(req, FALSE)
  \/ \E req \in saveRequests : SaveRejected(req)
  \/ ManagersAnswered(FALSE)

\* C5: the step that handles a failed request (of the master data load, the
\* latest week, the evaluation and its submission, a list, a save, the
\* managers) sends no request and leaves no request or timer behind that was
\* not there before: nothing is retried until the user acts again.
C5_NoRetry ==
  [][/\ ProviderFailure =>
          /\ mastersEvent'.requests = {}
          /\ mastersInFlight' < mastersInFlight
          /\ UNCHANGED <<pmRequests, listRequests, saveRequests, managerRequests>>
     /\ FormFailure =>
          /\ pmEvent'.sent = {}
          /\ pmRequests' \subseteq pmRequests /\ pmRequests' # pmRequests
          /\ UNCHANGED <<mastersInFlight, listRequests, saveRequests, managerRequests>>
     /\ MasterPageFailure =>
          /\ crudEvent'.sent = {}
          /\ listRequests' \subseteq listRequests
          /\ saveRequests' \subseteq saveRequests
          /\ managerRequests' <= managerRequests
          /\ UNCHANGED <<mastersInFlight, pmRequests>>
    ]_vars

\* a list request and a save have failed and the page has nothing in flight
C5_Witness ==
  /\ crudEvent.op = "answered"
  /\ crudEvent.failed
  /\ alert = Alert("danger", MsgFailedToSave)
  /\ PageQuiet

\* ------------------------------------------------------------------------
\* Properties of the week strings
\* ------------------------------------------------------------------------
\* the number n as parseWeek returns it
NumberValue(n) == Num(FALSE, n, FALSE)

\* weekText has been formatted from weekArgs and parsed since
WeekRoundTripped ==
  weekArgs # NoArgs /\ weekText # Null /\ weekParsed # Unparsed

\* C11: parseWeek of the string formatWeekValue builds from a year and a
\* week 1..53 is exactly that year and that week, and parseWeek of an empty
\* value or of a value without "-W" is {year: null, week: null}.
C11_WeekRoundTrip ==
  /\ WeekRoundTripped =>
        weekParsed = [year |-> NumberValue(weekArgs.year),
                      week |-> NumberValue(weekArgs.week)]
  /\ (weekParsed # Unparsed
        /\ (weekText \in {Null, EmptyStr} \/ ~Includes(weekText, S_dashW))) =>
        weekParsed = [year |-> NullNum, week |-> NullNum]

C11_Witness ==
  /\ WeekRoundTripped
  /\ weekArgs = [year |-> MaxYear, week |-> MaxWeek]
  /\ weekParsed.week = NumberValue(MaxWeek)

\* ------------------------------------------------------------------------
\* Properties of the evaluation form: what a submit sends
\* ------------------------------------------------------------------------
\* the submit requests of the page that are not yet answered
SubmitsInFlight == {req \in pmRequests : req.kind = "submit"}

\* C12: a submit in edit mode is a PUT to the id of the evaluation that was
\* loaded and never a POST; a submit in add mode is a POST.
C12_SubmitByMode ==
  \A req \in SubmitsInFlight :
    IF pmNav.mode = "edit"
    THEN req.method = "PUT" /\ req.evalId # 0
    ELSE req.method = "POST"

\* the half of C12 about add mode (and a page opened without a mode)
C12_AddCreates ==
  \A req \in SubmitsInFlight : pmNav.mode # "edit" => req.method = "POST"

\* ------------------------------------------------------------------------
\* Properties of the App mount
\* ------------------------------------------------------------------------
\* the step in which App mounts
MountStep == appPhase = "closed" /\ appPhase' = "loading"

\* the auth items App removes are absent from the storage ls
AuthItemsGone(ls) == \A k \in AuthKeys : ls[k] = NullOf(k)

StatusModalOpens == NoStatusModal /\ ~NoStatusModal'

\* the generic confirmation never holds an active department, and the two
\* modals are never open together
GenericNotForActiveDepartment ==
  /\ crudPage = "DEPARTMENT" => deleteTarget.status # "Active"
  /\ deptDeactivateTarget # NoTarget =>
        deleteTarget = NoTarget /\ deptDeactivateTarget.status = "Active"

\* C14: on the departments page the status button of an Active row opens
\* the deactivation dialog (rendered, with the generic confirmation closed)
\* and that of any other row the generic confirmation; every deactivate
\* request carries a non-empty reason; and confirmDelete never asks for the
\* status Inactive of a department.
C14_DepartmentDeactivationPath ==
  /\ [][(StatusModalOpens /\ crudPage = "DEPARTMENT") =>
          \/ /\ deptDeactivateTarget'.status = "Active"
             /\ deleteTarget' = NoTarget
             /\ DialogUsable'
          \/ /\ deleteTarget'.status = "Inactive"
             /\ deptDeactivateTarget' = NoTarget]_vars
  /\ [](GenericNotForActiveDepartment
         /\ (\A req \in deactivateRequests : Truthy(req.reason))
         /\ (crudPage = "DEPARTMENT" =>
               \A req \in statusRequests : req.status = "Active"))

\* the dialog is open for an active department
C14_Witness ==
  /\ crudPage = "DEPARTMENT"
  /\ DialogUsable
  /\ deptDeactivateTarget.status = "Active"
  /\ deleteTarget = NoTarget
  /\ crudEvent.op = "deleteItem"

\* C15: once the dialog is open for a department, a non-empty reason is
\* entered and the impact-preview request has finished, the Deactivate
\* button is rendered and enabled.
C15_DeactivationCanComplete ==
  (/\ deptDeactivateTarget # NoTarget
   /\ Truthy(reason)
   /\ ~previewLoading /\ ~deptDeactivateLoading) =>
    (/\ ~renderError
     /\ DeactivateButton(reason, deptDeactivateLoading, previewLoading) = "enabled")

\* no deactivate request is ever sent, and the backend never sees a
\* department of the page turn inactive
NoDeactivationEver ==
  /\ deactivateRequests = {}
  /\ crudPage = "DEPARTMENT" => backendRows[1].status = "Active"

\* ------------------------------------------------------------------------
\* Properties of the evaluation form: the eligible employees
\* ------------------------------------------------------------------------
\* the requests for /performance/eligible-employees/ not yet answered
EligibleRequests ==
  {req \in pmRequests : req.kind \in {"eligibleEffect", "loadEligible", "weekChange"}}

\* C16: an eligible-employees request is sent only in add mode and only
\* when the role of the user is admin or manager.
C16_EligibleOnlyForEvaluators ==
  EligibleRequests # {} =>
    pmNav.mode = "add" /\ getUserRole(localStorage) \in EvaluatorRoles

\* the half of C16 about the mode: no such request outside add mode
C16_EligibleOnlyInAdd == EligibleRequests # {} => pmNav.mode = "add"

\* the create requests that the last step, a handleSubmit, has sent
CreatesJustSent ==
  IF pmEvent.op = "handleSubmit"
  THEN {req \in pmEvent.sent : req.method = "POST"} ELSE {}

\* C17: in add mode a create-evaluation request is sent only for an
\* employee who is in the list of eligible employees loaded for the week
\* selected, and for that week.
C17_CreateOnlyEligible ==
  pmNav.mode = "add" =>
    \A req \in CreatesJustSent :
      /\ req.week = selectedWeek
      /\ toUpperCase(req.emp) \in eligibleEmployees


\* ------------------------------------------------------------------------
\* Profile: Cancel and the backup
\* ------------------------------------------------------------------------
\* the step is the Cancel of section x
CancelStep(x) ==
  /\ editingSections[x]
  /\ profileEvent'.op = "cancel"
  /\ profileEvent'.section = x

\* the step is a call of toggleEditSection for section x, already edited
ReEditStep(x) ==
  /\ editingSections[x]
  /\ profileEvent'.op = "toggleEditSection"
  /\ profileEvent'.section = x

\* C18: Cancel for a section leaves that section's form data equal to what
\* it was when edit mode was entered for the section, whatever was changed
\* since, and leaves the form data of the other sections as it was; a call
\* of toggleEditSection for a section already in edit mode changes neither
\* editingSections nor originalData.
C18_CancelRestoresEntered ==
  [][\A x \in Sections :
       /\ CancelStep(x) =>
            /\ formData'[x] = enteredData[x]
            /\ ~editingSections'[x]
            /\ \A y \in Sections \ {x} : formData'[y] = formData[y]
       /\ ReEditStep(x) =>
            /\ editingSections' = editingSections
            /\ originalData' = originalData]_vars

\* the personal section has been cancelled back to its backup, taken from
\* saved values, while the address section stays in edit mode with its
\* changes
C18_Witness ==
  /\ profileEvent.op = "cancel"
  /\ profileEvent.section = "personal"
  /\ ~editingSections["personal"]
  /\ formData["personal"] = originalData["personal"]
  /\ formData["personal"] # NoData("personal")
  /\ editingSections["address"]
  /\ formData["address"] # enteredData["address"]
  /\ originalData["address"] = enteredData["address"]

\* ------------------------------------------------------------------------
\* Profile: the picture file
\* ------------------------------------------------------------------------
\* the last step validated a file
FileChecked == profileEvent.op = "handleProfilePictureChange"

\* C19: validateProfilePicture accepts the file exactly when its size is
\* less than 2*1024*1024 bytes and its type is one of image/jpeg, image/jpg,
\* image/png, image/webp; an oversized file of a type outside the list is
\* reported with the size error.
C19_AcceptsSmallAllowed ==
  FileChecked =>
    /\ pictureCheck.valid <=>
         (profileEvent.file.size < 2 * 1024 * 1024
          /\ profileEvent.file.type \in
               {"image/jpeg", "image/jpg", "image/png", "image/webp"})
    /\ (profileEvent.file.size > 2 * 1024 * 1024
        /\ profileEvent.file.type \notin
             {"image/jpeg", "image/jpg", "image/png", "image/webp"})
         => pictureCheck.error = "File size must be less than 2MB"

\* what the code does: a file is refused for its size only above the limit,
\* and the size is judged before the type
PictureJudgedAsCoded ==
  FileChecked =>
    /\ pictureCheck.valid <=>
         (profileEvent.file.size <= 2 * 1024 * 1024
          /\ profileEvent.file.type \in
               {"image/jpeg", "image/jpg", "image/png", "image/webp"})
    /\ profileEvent.file.size > 2 * 1024 * 1024
         => pictureCheck.error = "File size must be less than 2MB"
    /\ pictureCheck.valid => pictureCheck.error = ""

====
